---- MODULE Spec2Model ----
(***************************************************************************)
(* Model of the Framing Routine tutor (src/api/tutor.js): the per-turn     *)
(* handler, the state updater updateStateFromStudent, the stage resolver   *)
(* getStage and the question router computeNextQuestion.                   *)
(*                                                                         *)
(* Strings are TLA+ strings and every text operation of the source         *)
(* (trim, whitespace collapse, lower-casing, indexOf, includes, slice,     *)
(* split) is computed character by character with Len, SubSeq and \o.      *)
(* The typographic characters of the source texts (curly apostrophe, en    *)
(* and em dash) are written as ' and - ; no operation of the program       *)
(* inspects them.                                                          *)
(***************************************************************************)
EXTENDS Integers, Sequences, FiniteSets, TLC

(***************************************************************************)
(* Character-level string primitives (JavaScript String methods).          *)
(***************************************************************************)
\* the element of a one-element set. Only({e(x) : x \in {v}}) is e with x
\* standing for the value of v, computed once: a local constant of the source
Only(S) == CHOOSE x \in S : TRUE

CharAt(s, i) == SubSeq(s, i, i)

IsSpace(c) == c = " " \/ c = "\n" \/ c = "\t"

LowerOf ==
  [A |-> "a", B |-> "b", C |-> "c", D |-> "d", E |-> "e", F |-> "f", G |-> "g", H |-> "h",
   I |-> "i", J |-> "j", K |-> "k", L |-> "l", M |-> "m", N |-> "n", O |-> "o", P |-> "p",
   Q |-> "q", R |-> "r", S |-> "s", T |-> "t", U |-> "u", V |-> "v", W |-> "w", X |-> "x",
   Y |-> "y", Z |-> "z"]

LowerChar(c) == IF c \in DOMAIN LowerOf THEN LowerOf[c] ELSE c

RECURSIVE lowerCase(_)
lowerCase(s) ==
  IF Len(s) <= 1 THEN LowerChar(s)
  ELSE lowerCase(SubSeq(s, 1, Len(s) \div 2)) \o lowerCase(SubSeq(s, Len(s) \div 2 + 1, Len(s)))

\* s.slice(from0) and s.slice(from0, to0) with 0-based offsets
SliceFrom(s, from0) == SubSeq(s, from0 + 1, Len(s))
Slice(s, from0, to0) == SubSeq(s, from0 + 1, to0)

startsWith(s, p) == Len(p) <= Len(s) /\ SubSeq(s, 1, Len(p)) = p

\* the 1-based positions at which p occurs in s
Occurrences(s, p) == {i \in 1..(Len(s) - Len(p) + 1) : SubSeq(s, i, i + Len(p) - 1) = p}

includes(s, p) ==
  \E i \in 1..(Len(s) - Len(p) + 1) : SubSeq(s, i, i + Len(p) - 1) = p

\* 0-based index of the first occurrence, -1 when absent
indexOf(s, p) ==
  Only({IF occ = {} THEN -1 ELSE (CHOOSE i \in occ : \A j \in occ : i <= j) - 1 :
        occ \in {Occurrences(s, p)}})

lastIndexOf(s, p) ==
  Only({IF occ = {} THEN -1 ELSE (CHOOSE i \in occ : \A j \in occ : j <= i) - 1 :
        occ \in {Occurrences(s, p)}})

RECURSIVE trimStart(_)
trimStart(s) ==
  IF s # "" /\ IsSpace(CharAt(s, 1)) THEN trimStart(Tail(s)) ELSE s

RECURSIVE trimEnd(_)
trimEnd(s) ==
  IF s # "" /\ IsSpace(CharAt(s, Len(s))) THEN trimEnd(SubSeq(s, 1, Len(s) - 1)) ELSE s

trim(s) == trimEnd(trimStart(s))

\* s.replace(/\s+/g, " ") on the characters lo..hi of s: a whitespace
\* character becomes a space when it starts a run and nothing otherwise
RECURSIVE collapseRange(_, _, _)
collapseRange(s, lo, hi) ==
  IF lo > hi THEN ""
  ELSE IF lo = hi
  THEN (IF ~IsSpace(CharAt(s, lo)) THEN CharAt(s, lo)
        ELSE IF lo > 1 /\ IsSpace(CharAt(s, lo - 1)) THEN "" ELSE " ")
  ELSE collapseRange(s, lo, (lo + hi) \div 2) \o collapseRange(s, (lo + hi) \div 2 + 1, hi)

collapseSpaces(s) == collapseRange(s, 1, Len(s))

\* number of entries of s.split(/\s+/).filter(Boolean): the positions where a
\* word starts
wordCount(s) ==
  Cardinality({i \in 1..Len(s) :
                 ~IsSpace(CharAt(s, i)) /\ (i = 1 \/ IsSpace(CharAt(s, i - 1)))})

\* number of "?" characters of a text
countQuestions(s) == Cardinality({i \in 1..Len(s) : CharAt(s, i) = "?"})

\* s.replace(/[.!\s]*$/, "")
RECURSIVE stripTrailingPunct(_)
stripTrailingPunct(s) ==
  IF s # "" /\ (IsSpace(CharAt(s, Len(s))) \/ CharAt(s, Len(s)) \in {".", "!"})
  THEN stripTrailingPunct(SubSeq(s, 1, Len(s) - 1))
  ELSE s

\* s.replaceAll(pat, rep)
RECURSIVE replaceAll(_, _, _)
replaceAll(s, pat, rep) ==
  Only({IF i < 0 THEN s
        ELSE Slice(s, 0, i) \o rep \o replaceAll(SliceFrom(s, i + Len(pat)), pat, rep) :
        i \in {indexOf(s, pat)}})

(***************************************************************************)
(* The raw messages a learner sends, and the values of the text functions  *)
(* on them, computed once.                                                 *)
(***************************************************************************)
TopicMsg == "  Cuban   Missile Crisis "
CombinedMsg == "The Cold War is about how fear leads to an arms race"
IsAboutMsg == "how fear leads to an arms race"
QuestionMsg == "Why did it start?"
ContentMsg == "Castro's rise to power in Cuba"
LongStuckMsg == "idk no entiendo la pregunta"
FlaggedMsg == "shoot the plane"

Msgs ==
  {"yes", "no", "si", "idk", "1", "2", "3", "4", TopicMsg, CombinedMsg, IsAboutMsg,
   QuestionMsg, ContentMsg, LongStuckMsg, FlaggedMsg, "my topic", "frame", ""}

\* the messages as sent and as cleaned
Texts ==
  Msgs \cup {collapseSpaces(trim(m)) : m \in Msgs}
       \cup {lowerCase(collapseSpaces(trim(m))) : m \in Msgs}

\* table[t] for a text of the table, v for any other text
Memo(table, t, v) == IF t \in DOMAIN table THEN table[t] ELSE v

(***************************************************************************)
(* UTIL (tutor.js)                                                         *)
(***************************************************************************)
cleanTextOf == [t \in Texts |-> collapseSpaces(trim(t))]

cleanText(s) == Memo(cleanTextOf, s, collapseSpaces(trim(s)))

toLowerCaseOf == [t \in Texts |-> lowerCase(t)]

toLowerCase(s) == Memo(toLowerCaseOf, s, lowerCase(s))

isNegative(s) == toLowerCase(cleanText(s)) \in {"no", "nope", "nah", "n/a", "none"}

isAffirmative(s) ==
  toLowerCase(cleanText(s)) \in {"yes", "y", "yeah", "yep", "sure", "correct", "ok", "okay"}

\* the closing lines of enforceSingleQuestion: a text without "?" gets one
endWithQuestionMark(out) ==
  IF ~includes(out, "?") THEN stripTrailingPunct(out) \o "?" ELSE out

enforceSingleQuestionNoTruncate(text) ==
  Only({IF out0 = "" THEN "Can you say more?" ELSE endWithQuestionMark(out0) :
        out0 \in {trim(text)}})

enforceSingleQuestion(text) ==
  Only({IF out0 = "" THEN "Can you say more?"
        ELSE IF firstQ >= 0 /\ lastQ # firstQ
             THEN endWithQuestionMark(trim(Slice(out0, 0, firstQ + 1)))
             ELSE endWithQuestionMark(out0) :
        out0 \in {trim(text)},
        firstQ \in {indexOf(trim(text), "?")},
        lastQ \in {lastIndexOf(trim(text), "?")}})

GENERIC_KEY_TOPICS ==
  {"my assignment", "the assignment", "my essay", "this essay", "my paper",
   "this paper", "my paragraph", "this paragraph", "my topic", "the topic",
   "topic", "key topic", "it", "this", "that"}

isBadKeyTopic(keyTopic) ==
  \E kt \in {toLowerCase(cleanText(keyTopic))} :
    \/ kt = ""
    \/ kt \in GENERIC_KEY_TOPICS
    \/ startsWith(kt, "my ")

NoParse == [ok |-> FALSE, keyTopic |-> "", isAbout |-> ""]

\* "X is about Y"; ok = FALSE stands for the null result
parseKeyTopicIsAbout(msg) ==
  Only({IF idx < 0 THEN NoParse
        ELSE Only({IF keyTopic = "" \/ isAbout = "" THEN NoParse
                   ELSE IF isBadKeyTopic(keyTopic) THEN NoParse
                   ELSE IF wordCount(keyTopic) < 2 \/ wordCount(keyTopic) > 5 THEN NoParse
                   ELSE [ok |-> TRUE, keyTopic |-> keyTopic, isAbout |-> isAbout] :
                   keyTopic \in {cleanText(Slice(m, 0, idx))},
                   isAbout \in {cleanText(SliceFrom(m, idx + Len(" is about ")))}}) :
        m \in {cleanText(msg)},
        idx \in {indexOf(toLowerCase(cleanText(msg)), " is about ")}})

NoCauseEffect == [cause |-> "", effect |-> ""]

\* "... leads to ..."; the null result is the pair of empty strings, which is
\* what every caller turns null into (parsed?.cause || "")
\* the text of parseCauseEffectLeadsTo after its prefix is stripped
stripIsAboutPrefix(t0, prefix) ==
  IF startsWith(toLowerCase(t0), prefix) THEN cleanText(SliceFrom(t0, Len(prefix))) ELSE t0

\* the split of the stripped text t at " leads to "
splitLeadsTo(t, idx) ==
  IF idx < 0 THEN NoCauseEffect
  ELSE Only({IF cause = "" \/ effect = "" THEN NoCauseEffect
             ELSE [cause |-> cause, effect |-> effect] :
             cause \in {cleanText(Slice(t, 0, idx))},
             effect \in {cleanText(SliceFrom(t, idx + Len(" leads to ")))}})

parseCauseEffectLeadsTo(isAboutRaw) ==
  Only({IF t0 = "" THEN NoCauseEffect
        ELSE Only({splitLeadsTo(t, indexOf(toLowerCase(t), " leads to ")) :
                   t \in {stripIsAboutPrefix(t0, "this topic is about how ")}}) :
        t0 \in {cleanText(isAboutRaw)}})

\* JavaScript a || b on strings
Or(a, b) == IF a # "" THEN a ELSE b

(***************************************************************************)
(* STUCK SUPPORT and selection normalizers                                 *)
(***************************************************************************)
detectStuckTone(text) ==
  Only({
  IF t = "" THEN "neutral"
  ELSE IF \E p \in {"confus", "stupid", "dumb", "hate", "annoy", "frustrat", "angry",
                    "mad", "ugh", "this sucks", "do we have to"} : includes(t, p)
       THEN "frustration"
  ELSE IF \E p \in {"do we have to", "why do we have to", "why am i doing",
                    "what's the point", "pointless"} : includes(t, p)
       THEN "resistance"
  ELSE "neutral" :
  t \in {toLowerCase(cleanText(text))}})

\* "" stands for null
normalizePurpose(msg) ==
  Only({
  IF t = "" THEN ""
  ELSE IF includes(t, "study") \/ includes(t, "review") \/ t = "s" THEN "study"
  ELSE IF includes(t, "write") \/ includes(t, "essay") \/ includes(t, "paragraph")
          \/ includes(t, "create") \/ t = "w" THEN "write"
  ELSE IF includes(t, "read") \/ includes(t, "note") \/ includes(t, "annot") \/ t = "r" THEN "read"
  ELSE IF t = "1" THEN "study"
  ELSE IF t = "2" THEN "write"
  ELSE IF t = "3" THEN "read"
  ELSE "" :
  t \in {toLowerCase(cleanText(msg))}})

normalizeFrameTypeSelection(input) ==
  Only({
  IF t = "1" \/ startsWith(t, "1 ") THEN "causeEffect"
  ELSE IF t = "2" \/ startsWith(t, "2 ") THEN "themes"
  ELSE IF t = "3" \/ startsWith(t, "3 ") THEN "reading"
  ELSE IF includes(t, "cause") \/ includes(t, "effect") \/ includes(t, "how") \/ includes(t, "why")
       THEN "causeEffect"
  ELSE IF includes(t, "theme") \/ includes(t, "big idea") \/ includes(t, "central idea") THEN "themes"
  ELSE IF includes(t, "read") \/ includes(t, "text") \/ includes(t, "source") \/ includes(t, "note")
       THEN "reading"
  ELSE "" :
  t \in {trim(toLowerCase(input))}})

fillTopic(template, keyTopic) == replaceAll(template, "[Key Topic]", Or(keyTopic, "your topic"))

safeEffectFromState(state) == Or(cleanText(state.frameMeta.causeEffect.effect), "the effect")

\* PROMPT_BANK[purpose][frameType][key]; "" where the bank has no entry
PROMPT_BANK(purpose, frameType, key) ==
  IF purpose = "study" /\ frameType = "causeEffect" THEN
    CASE key = "isAbout" -> "In your own words, what is happening in \"[Key Topic]\", and why is it important?"
      [] key = "mainIdea" -> "What is one major cause or effect that is important to remember?"
      [] key = "detail" -> "What is an important detail that explains how or why this cause or effect occurs?"
      [] key = "soWhat" -> "When you look at all of these causes and effects together, what can you conclude about \"[Key Topic]\"?"
      [] OTHER -> ""
  ELSE IF purpose = "write" /\ frameType = "causeEffect" THEN
    CASE key = "isAbout" -> "Complete this sentence: This topic is about how ______ leads to ______."
      [] key = "mainIdea" -> "What is the first major cause that leads to [EFFECT]?"
      [] key = "detailExplain" -> "How does [MAIN IDEA] lead to [EFFECT]?"
      [] key = "detailEvidence" -> "What evidence or example will you use to support the idea that [MAIN IDEA] leads to [EFFECT]?"
      [] key = "soWhat" -> "Why should people care about this effect?"
      [] OTHER -> ""
  ELSE ""

\* details[i] with a 0-based index; a missing bucket reads as empty
\* (Array.isArray(details[i]) ? details[i] : [])
bucket(details, i) == IF i + 1 \in 1..Len(details) THEN details[i + 1] ELSE << >>

\* mainIdeas[i] with a 0-based index; "" when undefined
mainIdeaAt(mainIdeas, i) == IF i + 1 \in 1..Len(mainIdeas) THEN mainIdeas[i + 1] ELSE ""

isDetailsStage(stage) == startsWith(stage, "details:")

\* Number(stage.split(":")[1])
stageIndex(stage) == CHOOSE i \in 0..9 : stage = "details:" \o ToString(i)

getPromptForStage(state, stage) ==
  LET purpose == state.frameMeta.purpose
      frameType == state.frameMeta.frameType
      kt == state.frame.keyTopic
  IN
  IF stage = "isAbout" /\ PROMPT_BANK(purpose, frameType, "isAbout") # ""
  THEN fillTopic(PROMPT_BANK(purpose, frameType, "isAbout"), kt)
  ELSE IF stage = "mainIdeas" /\ PROMPT_BANK(purpose, frameType, "mainIdea") # ""
  THEN PROMPT_BANK(purpose, frameType, "mainIdea")
  ELSE IF isDetailsStage(stage) /\ purpose = "write" /\ frameType = "causeEffect"
  THEN Only({replaceAll(replaceAll(IF Len(bucket(state.frame.details, idx)) = 0
                                   THEN PROMPT_BANK("write", "causeEffect", "detailExplain")
                                   ELSE PROMPT_BANK("write", "causeEffect", "detailEvidence"),
                                   "[MAIN IDEA]",
                                   Or(mainIdeaAt(state.frame.mainIdeas, idx), "this Main Idea")),
                        "[EFFECT]", safeEffectFromState(state)) :
             idx \in {stageIndex(stage)}})
  ELSE IF isDetailsStage(stage) /\ PROMPT_BANK(purpose, frameType, "detail") # ""
  THEN PROMPT_BANK(purpose, frameType, "detail")
  ELSE IF stage = "soWhat" /\ PROMPT_BANK(purpose, frameType, "soWhat") # ""
  THEN fillTopic(PROMPT_BANK(purpose, frameType, "soWhat"), kt)
  ELSE ""

genericNudges(stage) ==
  IF stage = "mainIdeas"
  THEN <<"Think of one important part", "Think of one reason or cause", "Think of one result or effect">>
  ELSE IF isDetailsStage(stage)
  THEN <<"Look for one example", "Look for one fact that supports it", "Look for one specific detail">>
  ELSE IF stage = "soWhat"
  THEN <<"What is important here", "Why should someone care", "What does this mean overall">>
  ELSE <<"Take a deep breath", "Start rough", "You can revise later">>

buildStuckNudges(state, stage) ==
  Only({
  IF purpose = "write" /\ frameType = "causeEffect" THEN
    IF stage = "keyTopic" THEN
      <<"Name a specific event, issue, or situation (not a broad category)",
        "Try adding a little context (who/where/when)",
        "Make it something you could put in a short title">>
    ELSE IF stage = "isAbout" THEN
      <<"Start with the effect (the outcome) you want to explain",
        "Then name what causes " \o effect,
        "Use the words \"leads to\" to show direction">>
    ELSE IF stage = "mainIdeas" THEN
      <<"What is one thing that directly contributes to " \o effect,
        "Think: policies, choices, conditions, actions, or events",
        "If you're unsure, pick the cause you can explain most clearly">>
    ELSE IF isDetailsStage(stage) THEN
      Only({
         IF Len(bucket(state.frame.details, stageIndex(stage))) = 0
         THEN <<"What happens between \"" \o mi \o "\" and \"" \o effect \o "\"",
                "Describe the chain in simple steps",
                "Use: because ___, then ___, which leads to ___">>
         ELSE <<"Pick one: a statistic, a real example, a quote, or a quick scenario",
                "What could you point to that supports \"" \o mi \o "\"",
                "Even a classroom or personal example can work">> :
         mi \in {Or(mainIdeaAt(state.frame.mainIdeas, stageIndex(stage)), "this cause")}})
    ELSE IF stage = "soWhat" THEN
      <<"What could happen if \"" \o effect \o "\" continues",
        "Who is impacted most, and what changes for them",
        "What is one real-world consequence that makes this urgent">>
    ELSE genericNudges(stage)
  ELSE IF purpose = "study" /\ frameType = "causeEffect" THEN
    IF stage = "mainIdeas" THEN
      <<"What caused this to happen", "What happened because of it", "Is this a cause or an effect">>
    ELSE IF isDetailsStage(stage) THEN
      <<"How does this happen", "Why does this happen",
        "What shows the connection between the cause and the effect">>
    ELSE IF stage = "soWhat" THEN
      <<"What changed from beginning to end", "What connects all of these causes and effects",
        "What do they have in common", "What conclusion can you draw">>
    ELSE genericNudges(stage)
  ELSE genericNudges(stage) :
  purpose \in {state.frameMeta.purpose},
  frameType \in {state.frameMeta.frameType},
  effect \in {safeEffectFromState(state)}})

\* lines.join("\n")
RECURSIVE joinLines(_)
joinLines(lines) ==
  IF Len(lines) = 0 THEN ""
  ELSE IF Len(lines) = 1 THEN lines[1]
  ELSE lines[1] \o "\n" \o joinLines(Tail(lines))

formatNudgeText(nudges) ==
  LET first4 == SubSeq(nudges, 1, IF Len(nudges) < 4 THEN Len(nudges) ELSE 4)
      items == joinLines([k \in 1..Len(first4) |-> "- " \o cleanText(first4[k])])
  IN IF items # "" THEN "Here are a few quick nudges (pick one):\n" \o items ELSE ""

StuckPatterns ==
  {"i don't know", "i dont know", "idk", "dont know", "i'm confused", "im confused",
   "confused", "i don't get it", "i dont get it", "dont get it", "help", "can you help",
   "stuck", "not sure", "i forgot", "i can't", "i cant", "no idea"}

matchesStuckPattern(text) ==
  \E t \in {toLowerCase(cleanText(text))} :
    IF t = "" THEN FALSE
    ELSE IF wordCount(t) > 14 THEN FALSE
    ELSE \E p \in StuckPatterns : includes(t, p)

isStuckMessageOf == [t \in Texts |-> matchesStuckPattern(t)]

isStuckMessage(text) == Memo(isStuckMessageOf, text, matchesStuckPattern(text))

getStage(state) ==
  LET f == state.frame
      m == state.frameMeta
  IN
  IF m.purpose = "" THEN "purpose"
  ELSE IF m.frameType = "" THEN "frameType"
  ELSE IF f.keyTopic = "" THEN "keyTopic"
  ELSE IF f.isAbout = "" THEN "isAbout"
  ELSE IF Len(f.mainIdeas) < 2 THEN "mainIdeas"
  ELSE IF \E i \in 0..(Len(f.mainIdeas) - 1) : Len(bucket(f.details, i)) < 2
  THEN "details:" \o ToString(CHOOSE i \in 0..(Len(f.mainIdeas) - 1) :
                                 /\ Len(bucket(f.details, i)) < 2
                                 /\ \A j \in 0..(i - 1) : Len(bucket(f.details, j)) >= 2)
  ELSE IF f.soWhat = "" THEN "soWhat"
  ELSE "refine"

buildMiniQuestion(state) ==
  Only({
  IF stage = "purpose" THEN
    "Which fits best: study/review, write/create, or create notes from a reading/source? (study/write/read)"
  ELSE IF stage = "frameType" THEN
    "Which one: 1) cause/effect, 2) themes, or 3) reading frames? (1-3)"
  ELSE IF stage = "keyTopic" THEN
    IF writeCE THEN "What event, issue, or situation are you writing about? (2-5 words)"
    ELSE "If you had to title this in 4 words, what would the title be?"
  ELSE IF stage = "isAbout" THEN
    IF writeCE THEN "Complete this sentence: This topic is about how ______ leads to ______."
    ELSE "In one rough sentence, what is happening in your topic and why does it matter?"
  ELSE IF stage = "mainIdeas" THEN
    IF writeCE THEN "What is one major cause that leads to " \o safeEffectFromState(state) \o "?"
    ELSE IF studyCE
    THEN "What is one major cause or effect related to \"" \o state.frame.keyTopic \o "\"? (Rough is fine.)"
    ELSE "What is one reason, part, or cause related to \"" \o state.frame.keyTopic \o "\"? (Rough is fine.)"
  ELSE IF isDetailsStage(stage) THEN
    Only({
       IF writeCE
       THEN IF Len(bucket(state.frame.details, stageIndex(stage))) = 0
            THEN "How does \"" \o mi \o "\" lead to " \o safeEffectFromState(state) \o "?"
            ELSE "What evidence or example will you use to support the idea that \"" \o mi
                 \o "\" leads to " \o safeEffectFromState(state) \o "?"
       ELSE "What is one specific example from your text/notes that connects to: \"" \o mi \o "\"?" :
       mi \in {Or(mainIdeaAt(state.frame.mainIdeas, stageIndex(stage)), "this Main Idea")}})
  ELSE IF stage = "soWhat" THEN
    IF writeCE THEN "Why should people care about this effect?"
    ELSE IF studyCE
    THEN "When you look at the causes and effects together, what can you conclude about \""
         \o state.frame.keyTopic \o "\"?"
    ELSE "Who is affected by \"" \o state.frame.keyTopic \o "\", and why should they care?"
  ELSE "What part feels easiest to improve right now: Key Topic, Is About, Main Ideas, Details, or So What?" :
  stage \in {getStage(state)},
  writeCE \in {state.frameMeta.purpose = "write" /\ state.frameMeta.frameType = "causeEffect"},
  studyCE \in {state.frameMeta.purpose = "study" /\ state.frameMeta.frameType = "causeEffect"}})

\* "" stands for null
normalizeStuckChoice(msg) ==
  Only({
  IF t = "" THEN ""
  ELSE IF t = "1" \/ startsWith(t, "1 ") THEN "1"
  ELSE IF t = "2" \/ startsWith(t, "2 ") THEN "2"
  ELSE IF t = "3" \/ startsWith(t, "3 ") THEN "3"
  ELSE IF t = "4" \/ startsWith(t, "4 ") THEN "4"
  ELSE IF includes(t, "direction") \/ includes(t, "prompt") THEN "1"
  ELSE IF includes(t, "re-read") \/ includes(t, "reread") \/ includes(t, "notes") \/ includes(t, "text")
       THEN "2"
  ELSE IF includes(t, "smaller") \/ includes(t, "small") \/ includes(t, "mini") THEN "3"
  ELSE IF includes(t, "skip") \/ includes(t, "later") \/ includes(t, "come back") THEN "4"
  ELSE "" :
  t \in {toLowerCase(cleanText(msg))}})

(***************************************************************************)
(* STATE                                                                   *)
(* pending is a record with one field per payload property that any       *)
(* pending object of the source carries; type = "" stands for null, and a *)
(* property an object does not carry is "" (index: -1).                    *)
(***************************************************************************)
null ==
  [type |-> "", index |-> -1, stage |-> "", tone |-> "", mode |-> "", nudgeText |-> "",
   resumeQuestion |-> "", miniQuestion |-> "", candidateCode |-> "", candidateName |-> "",
   candidateNativeName |-> "", candidateDir |-> ""]

Pending(type) == [null EXCEPT !.type = type]

PendingAt(type, index) == [null EXCEPT !.type = type, !.index = index]

defaultState ==
  [frameMeta |-> [purpose |-> "", frameType |-> "", causeEffect |-> [cause |-> "", effect |-> ""]],
   frame |-> [keyTopic |-> "", isAbout |-> "", mainIdeas |-> << >>, details |-> << >>, soWhat |-> ""],
   pending |-> null,
   settings |-> [language |-> "en", languageName |-> "English", languageNativeName |-> "English",
                 dir |-> "ltr", languageLocked |-> FALSE],
   flags |-> [exportOffered |-> FALSE, exportChoice |-> ""],
   skips |-> << >>]

\* completeness kept as a stored marker
isFrameCompleteStored(s) ==
  /\ s.flags.exportOffered
  /\ s.frame.keyTopic # ""
  /\ s.frame.isAbout # ""
  /\ Len(s.frame.mainIdeas) >= 2
  /\ \A i \in 0..(Len(s.frame.mainIdeas) - 1) : Len(bucket(s.frame.details, i)) >= 2
  /\ s.frame.soWhat # ""

isFrameComplete(s) ==
  /\ s.frame.keyTopic # ""
  /\ s.frame.isAbout # ""
  /\ Len(s.frame.mainIdeas) >= 2
  /\ \A i \in 0..(Len(s.frame.mainIdeas) - 1) : Len(bucket(s.frame.details, i)) >= 2
  /\ s.frame.soWhat # ""

(***************************************************************************)
(* PROGRESSION: the question router                                        *)
(***************************************************************************)
\* items.map((x, i) => `${i + 1}) ${x}`).join("\n")
numberedLines(items) == joinLines([k \in 1..Len(items) |-> ToString(k) \o ") " \o items[k]])

\* pb.replace(/\?\s*$/, "")
stripFinalQuestionMark(pb) ==
  Only({IF t # "" /\ CharAt(t, Len(t)) = "?" THEN SubSeq(t, 1, Len(t) - 1) ELSE pb :
        t \in {trimEnd(pb)}})

pendingQuestion(s) ==
  LET p == s.pending
      mi == mainIdeaAt(s.frame.mainIdeas, p.index)
  IN
  CASE p.type = "confirmLanguageSwitch" ->
         "I notice you're writing in " \o Or(p.candidateName, "that language")
         \o ". Would you like to continue in "
         \o Or(p.candidateNativeName, Or(p.candidateName, "that language")) \o "? (yes/no)"
    [] p.type = "stuckConfirm" -> "Sounds like you're stuck. Want a quick help move? (yes/no)"
    [] p.type = "stuckMenu" ->
         "Pick a quick help move: " \o "1) Check directions  " \o "2) Re-read source/notes  "
         \o "3) I'll ask a smaller question for this step  " \o "4) Skip for now and come back. "
         \o "Which one (1-4)?"
    [] p.type = "stuckReask" ->
         (IF p.mode = "directions"
          THEN "Quick reset: re-read the prompt and underline the verb (explain/argue/compare)."
          ELSE "Quick reset: skim your notes/text and pick one phrase that feels important.")
         \o " Then answer: " \o p.resumeQuestion
    [] p.type = "stuckNudge" ->
         (IF Or(p.tone, "neutral") = "frustration" THEN "That can feel frustrating. "
          ELSE IF Or(p.tone, "neutral") = "resistance" THEN "I hear you. "
          ELSE "")
         \o cleanText(p.nudgeText) \o " Then answer: " \o p.resumeQuestion
    [] p.type = "stuckMini" -> Or(p.miniQuestion, buildMiniQuestion(s))
    [] p.type = "stuckSkip" -> "Got it - we'll come back to this. Want to try the next step now? (yes/no)"
    [] p.type = "confirmIsAbout" ->
         "\"" \o s.frame.keyTopic \o "\" is about \"" \o s.frame.isAbout
         \o "\". Is that correct, or would you like to revise it?"
    [] p.type = "confirmMainIdeas" ->
         "You have identified the following Main Ideas:\n" \o numberedLines(s.frame.mainIdeas)
         \o "\nIs that correct, or would you like to revise one?"
    [] p.type = "offerThirdMainIdea" -> "Do you have a third Main Idea? (yes/no)"
    [] p.type = "collectThirdMainIdea" ->
         "What is your third Main Idea that helps explain " \o s.frame.keyTopic \o "?"
    [] p.type = "offerThirdDetail" ->
         "For this Main Idea: \"" \o mi \o "\", do you have a third Supporting Detail? (yes/no)"
    [] p.type = "collectThirdDetail" ->
         "What is your third Supporting Detail for this Main Idea: \"" \o mi \o "\"?"
    [] p.type = "confirmDetails" ->
         "For this Main Idea: \"" \o mi \o "\", you identified the following Supporting Details:\n"
         \o numberedLines(bucket(s.frame.details, p.index))
         \o "\nIs that correct, or would you like to revise one?"
    [] p.type = "offerMoreSoWhat" -> "Do you want to add one more sentence to your So What? (yes/no)"
    [] p.type = "collectMoreSoWhat" -> "Add one more sentence to your So What:"
    [] p.type = "confirmSoWhat" ->
         "Your So What is: \"" \o s.frame.soWhat \o "\". Is that correct, or would you like to revise it?"
    [] p.type = "offerExport" -> "Would you like to save or print a copy of your work? (yes/no)"
    [] p.type = "chooseExportType" ->
         "What would you like to save/print: frame, transcript, or both? (frame/transcript/both)"
    [] OTHER -> ""

PendingTypesWithQuestion ==
  {"confirmLanguageSwitch", "stuckConfirm", "stuckMenu", "stuckReask", "stuckNudge", "stuckMini",
   "stuckSkip", "confirmIsAbout", "confirmMainIdeas", "offerThirdMainIdea", "collectThirdMainIdea",
   "offerThirdDetail", "collectThirdDetail", "confirmDetails", "offerMoreSoWhat",
   "collectMoreSoWhat", "confirmSoWhat", "offerExport", "chooseExportType"}

mainIdeasQuestion(s) ==
  Only({
  IF s.frameMeta.purpose = "write" /\ s.frameMeta.frameType = "causeEffect"
  THEN IF c = 0
       THEN "What is the first major cause that leads to " \o safeEffectFromState(s) \o "?"
       ELSE "What is the second major cause?"
  ELSE IF pb # ""
  THEN IF startsWith(toLowerCase(pb), "what is one major cause or effect")
       THEN "What is your " \o (IF c = 0 THEN "first" ELSE IF c = 1 THEN "second" ELSE "next")
            \o SliceFrom(pb, Len("What is one"))
       ELSE pb
  ELSE IF c = 0
  THEN "What is your first Main Idea that helps explain " \o s.frame.keyTopic \o "?"
  ELSE "What is your second Main Idea that helps explain " \o s.frame.keyTopic \o "?" :
  c \in {Len(s.frame.mainIdeas)},
  pb \in {getPromptForStage(s, "mainIdeas")}})

detailsQuestion(s, i) ==
  Only({
  IF pb # ""
  THEN IF s.frameMeta.purpose = "write" /\ s.frameMeta.frameType = "causeEffect"
       THEN pb
       ELSE "For this Main Idea: \"" \o mi \o "\", " \o stripFinalQuestionMark(pb) \o "?"
  ELSE IF Len(arr) = 0
  THEN "What is your first Supporting Detail for this Main Idea: \"" \o mi \o "\"?"
  ELSE "What is your second Supporting Detail for this Main Idea: \"" \o mi \o "\"?" :
  mi \in {mainIdeaAt(s.frame.mainIdeas, i)},
  arr \in {bucket(s.frame.details, i)},
  pb \in {getPromptForStage(s, "details:" \o ToString(i))}})

\* the base progression asking about the last open detail bucket
baseQuestionLastOpen(s) ==
  IF s.frameMeta.purpose = "" THEN
    "How will you use this Frame: studying/review, writing/creating, or create notes from a reading or source? (study/write/read)"
  ELSE IF s.frameMeta.frameType = "" THEN
    "What kind of thinking are you doing: "
    \o "1) Explain how/why something happens (Linear & Cause-and-Effect Relationships)  "
    \o "2) Explain a big idea or theme (Framing Themes)  "
    \o "3) Organize ideas from a text or source (Reading Frames). "
    \o "Which one (1-3)?"
  ELSE IF s.frame.keyTopic = "" THEN
    IF s.frameMeta.purpose = "write" /\ s.frameMeta.frameType = "causeEffect"
    THEN "What event, issue, or situation are you writing about? (2-5 words)"
    ELSE "What is your Key Topic? (2-5 words)"
  ELSE IF s.frame.isAbout = "" THEN
    Or(getPromptForStage(s, "isAbout"), "Finish this sentence: \"" \o s.frame.keyTopic \o " is about ____.\"")
  ELSE IF Len(s.frame.mainIdeas) < 2 THEN mainIdeasQuestion(s)
  ELSE IF \E i \in 0..(Len(s.frame.mainIdeas) - 1) : Len(bucket(s.frame.details, i)) < 2
  THEN detailsQuestion(s, CHOOSE i \in 0..(Len(s.frame.mainIdeas) - 1) :
                            /\ Len(bucket(s.frame.details, i)) < 2
                            /\ \A j \in (i + 1)..(Len(s.frame.mainIdeas) - 1) :
                                 Len(bucket(s.frame.details, j)) >= 2)
  ELSE IF s.frame.soWhat = "" THEN
    Or(getPromptForStage(s, "soWhat"),
       "So what? Why does \"" \o s.frame.keyTopic \o "\" matter? (1-2 sentences)")
  ELSE "Want to refine anything (Key Topic, Is About, Main Ideas, Details, or So What)?"

baseQuestion(s) ==
  IF s.frameMeta.purpose = "" THEN
    "How will you use this Frame: studying/review, writing/creating, or create notes from a reading or source? (study/write/read)"
  ELSE IF s.frameMeta.frameType = "" THEN
    "What kind of thinking are you doing: "
    \o "1) Explain how/why something happens (Linear & Cause-and-Effect Relationships)  "
    \o "2) Explain a big idea or theme (Framing Themes)  "
    \o "3) Organize ideas from a text or source (Reading Frames). "
    \o "Which one (1-3)?"
  ELSE IF s.frame.keyTopic = "" THEN
    IF s.frameMeta.purpose = "write" /\ s.frameMeta.frameType = "causeEffect"
    THEN "What event, issue, or situation are you writing about? (2-5 words)"
    ELSE "What is your Key Topic? (2-5 words)"
  ELSE IF s.frame.isAbout = "" THEN
    Or(getPromptForStage(s, "isAbout"), "Finish this sentence: \"" \o s.frame.keyTopic \o " is about ____.\"")
  ELSE IF Len(s.frame.mainIdeas) < 2 THEN mainIdeasQuestion(s)
  ELSE IF \E i \in 0..(Len(s.frame.mainIdeas) - 1) : Len(bucket(s.frame.details, i)) < 2
  THEN detailsQuestion(s, CHOOSE i \in 0..(Len(s.frame.mainIdeas) - 1) :
                            /\ Len(bucket(s.frame.details, i)) < 2
                            /\ \A j \in 0..(i - 1) : Len(bucket(s.frame.details, j)) >= 2)
  ELSE IF s.frame.soWhat = "" THEN
    Or(getPromptForStage(s, "soWhat"),
       "So what? Why does \"" \o s.frame.keyTopic \o "\" matter? (1-2 sentences)")
  ELSE "Want to refine anything (Key Topic, Is About, Main Ideas, Details, or So What)?"

computeNextQuestion(state) ==
  IF state.pending.type \in PendingTypesWithQuestion
  THEN pendingQuestion(state)
  ELSE baseQuestion(state)

(***************************************************************************)
(* STATE UPDATE                                                            *)
(***************************************************************************)
\* details[i] = v with a 0-based index (an assignment past the end leaves
\* holes, which read as empty buckets)
setBucket(details, i, v) ==
  [k \in 1..(IF i + 1 > Len(details) THEN i + 1 ELSE Len(details)) |->
     IF k = i + 1 THEN v ELSE IF k <= Len(details) THEN details[k] ELSE << >>]

ensureBuckets(s) ==
  [s EXCEPT !.frame.details =
     [k \in 1..(IF Len(s.frame.mainIdeas) > Len(s.frame.details)
                THEN Len(s.frame.mainIdeas) ELSE Len(s.frame.details)) |->
        IF k <= Len(s.frame.details) THEN s.frame.details[k] ELSE << >>]]

\* mainIdeas.push(msg) followed by the creation of the new idea's bucket
pushMainIdeaNoBucket(s, msg) ==
  [s EXCEPT !.frame.mainIdeas = Append(s.frame.mainIdeas, msg)]

pushMainIdea(s, msg) ==
  LET n == Len(s.frame.mainIdeas) IN
  [s EXCEPT !.frame.mainIdeas = Append(s.frame.mainIdeas, msg),
            !.frame.details = IF n + 1 <= Len(s.frame.details)
                              THEN s.frame.details
                              ELSE setBucket(s.frame.details, n, << >>)]

isWriteCauseEffect(s) == s.frameMeta.purpose = "write" /\ s.frameMeta.frameType = "causeEffect"

updConfirmLanguageSwitchNoLock(s, msg) ==
  IF isAffirmative(trim(toLowerCase(msg)))
  THEN [s EXCEPT !.settings = [language |-> Or(s.pending.candidateCode, "en"),
                               languageName |-> Or(s.pending.candidateName, s.settings.languageName),
                               languageNativeName |-> Or(s.pending.candidateNativeName,
                                                         s.settings.languageNativeName),
                               dir |-> IF s.pending.candidateDir = "rtl" THEN "rtl" ELSE "ltr",
                               languageLocked |-> TRUE],
                 !.pending = null]
  ELSE [s EXCEPT !.pending = null]

updConfirmLanguageSwitch(s, msg) ==
  LET normalized == trim(toLowerCase(msg)) IN
  IF isAffirmative(normalized)
  THEN [s EXCEPT !.settings = [language |-> Or(s.pending.candidateCode, "en"),
                               languageName |-> Or(s.pending.candidateName, s.settings.languageName),
                               languageNativeName |-> Or(s.pending.candidateNativeName,
                                                         s.settings.languageNativeName),
                               dir |-> IF s.pending.candidateDir = "rtl" THEN "rtl" ELSE "ltr",
                               languageLocked |-> TRUE],
                 !.pending = null]
  ELSE IF isNegative(normalized)
  THEN [s EXCEPT !.settings = [language |-> "en", languageName |-> "English",
                               languageNativeName |-> "English", dir |-> "ltr",
                               languageLocked |-> TRUE],
                 !.pending = null]
  ELSE s

updStuckConfirm(s, msg) ==
  Only({
  IF isAffirmative(low)
  THEN [s EXCEPT !.pending = [null EXCEPT !.type = "stuckMenu",
                                          !.stage = Or(s.pending.stage, getStage(s)),
                                          !.tone = Or(s.pending.tone, "neutral"),
                                          !.resumeQuestion = s.pending.resumeQuestion,
                                          !.miniQuestion = Or(s.pending.miniQuestion, buildMiniQuestion(s))]]
  ELSE IF isNegative(low) THEN [s EXCEPT !.pending = null]
  ELSE s :
  low \in {trim(toLowerCase(msg))}})

updStuckMenuMarking(s, msg) ==
  Only({
  IF choice = "" THEN s
  ELSE IF choice = "1"
  THEN [s EXCEPT !.pending = [null EXCEPT !.type = "stuckReask", !.mode = "directions",
                                          !.resumeQuestion = s.pending.resumeQuestion]]
  ELSE IF choice = "2"
  THEN [s EXCEPT !.pending = [null EXCEPT !.type = "stuckReask", !.mode = "reread",
                                          !.resumeQuestion = s.pending.resumeQuestion]]
  ELSE IF choice = "3"
  THEN [s EXCEPT !.pending = [null EXCEPT !.type = "stuckNudge", !.stage = stage,
                                          !.tone = Or(s.pending.tone, "neutral"),
                                          !.nudgeText = formatNudgeText(buildStuckNudges(s, stage)),
                                          !.resumeQuestion = s.pending.resumeQuestion]]
  ELSE IF choice = "4"
  THEN [s EXCEPT !.skips = Append(s.skips, stage),
                 !.frame.keyTopic = Or(s.frame.keyTopic, "(skipped)"),
                 !.pending = [null EXCEPT !.type = "stuckSkip", !.stage = stage,
                                          !.resumeQuestion = s.pending.resumeQuestion,
                                          !.miniQuestion = Or(s.pending.miniQuestion, buildMiniQuestion(s))]]
  ELSE s :
  choice \in {normalizeStuckChoice(msg)},
  stage \in {Or(s.pending.stage, getStage(s))}})

updStuckMenu(s, msg) ==
  Only({
  IF choice = "" THEN s
  ELSE IF choice = "1"
  THEN [s EXCEPT !.pending = [null EXCEPT !.type = "stuckReask", !.mode = "directions",
                                          !.resumeQuestion = s.pending.resumeQuestion]]
  ELSE IF choice = "2"
  THEN [s EXCEPT !.pending = [null EXCEPT !.type = "stuckReask", !.mode = "reread",
                                          !.resumeQuestion = s.pending.resumeQuestion]]
  ELSE IF choice = "3"
  THEN [s EXCEPT !.pending = [null EXCEPT !.type = "stuckNudge", !.stage = stage,
                                          !.tone = Or(s.pending.tone, "neutral"),
                                          !.nudgeText = formatNudgeText(buildStuckNudges(s, stage)),
                                          !.resumeQuestion = s.pending.resumeQuestion]]
  ELSE IF choice = "4"
  THEN [s EXCEPT !.skips = Append(s.skips, stage),
                 !.pending = [null EXCEPT !.type = "stuckSkip", !.stage = stage,
                                          !.resumeQuestion = s.pending.resumeQuestion,
                                          !.miniQuestion = Or(s.pending.miniQuestion, buildMiniQuestion(s))]]
  ELSE s :
  choice \in {normalizeStuckChoice(msg)},
  stage \in {Or(s.pending.stage, getStage(s))}})

updStuckSkipRecomputing(s, msg) ==
  Only({
  IF isAffirmative(low) THEN [s EXCEPT !.pending = [next EXCEPT !.type = "stuckMini"]]
  ELSE IF isNegative(low) THEN [s EXCEPT !.pending = [next EXCEPT !.type = "stuckConfirm"]]
  ELSE s :
  low \in {trim(toLowerCase(msg))},
  next \in {[null EXCEPT !.stage = Or(s.pending.stage, getStage(s)),
                         !.miniQuestion = Or(s.pending.miniQuestion, buildMiniQuestion(s)),
                         !.resumeQuestion = buildMiniQuestion(s)]}})

updStuckSkip(s, msg) ==
  Only({
  IF isAffirmative(low) THEN [s EXCEPT !.pending = [next EXCEPT !.type = "stuckMini"]]
  ELSE IF isNegative(low) THEN [s EXCEPT !.pending = [next EXCEPT !.type = "stuckConfirm"]]
  ELSE s :
  low \in {trim(toLowerCase(msg))},
  next \in {[null EXCEPT !.stage = Or(s.pending.stage, getStage(s)),
                         !.miniQuestion = Or(s.pending.miniQuestion, buildMiniQuestion(s)),
                         !.resumeQuestion = s.pending.resumeQuestion]}})

\* Is-About text stored together with the cause/effect pair of the
\* Writing + Cause-and-Effect frame; keepOnNull: a failed parse leaves the
\* stored pair (stuckMini) instead of emptying it
storeIsAbout(s, text, keepOnNull) ==
  IF ~isWriteCauseEffect(s) THEN [s EXCEPT !.frame.isAbout = text]
  ELSE Only({[s EXCEPT !.frame.isAbout = text,
                       !.frameMeta.causeEffect =
                          IF keepOnNull
                          THEN [cause |-> Or(ce.cause, s.frameMeta.causeEffect.cause),
                                effect |-> Or(ce.effect, s.frameMeta.causeEffect.effect)]
                          ELSE ce] :
             ce \in {parseCauseEffectLeadsTo(text)}})

updStuckMini(s, msg) ==
  Only({
  IF stage = "purpose"
  THEN [cleared EXCEPT !.frameMeta.purpose = Or(normalizePurpose(msg), s.frameMeta.purpose)]
  ELSE IF stage = "frameType"
  THEN [cleared EXCEPT !.frameMeta.frameType = Or(normalizeFrameTypeSelection(msg), s.frameMeta.frameType)]
  ELSE IF stage = "keyTopic"
  THEN IF s.frame.keyTopic = "" /\ ~isBadKeyTopic(msg) /\ wc >= 2 /\ wc <= 5
       THEN [cleared EXCEPT !.frame.keyTopic = msg]
       ELSE cleared
  ELSE IF stage = "isAbout"
  THEN IF s.frame.isAbout = ""
       THEN [storeIsAbout(s, msg, TRUE) EXCEPT !.pending = Pending("confirmIsAbout")]
       ELSE cleared
  ELSE IF stage = "mainIdeas"
  THEN IF Len(s.frame.mainIdeas) < 2 /\ ~isNegative(msg)
       THEN [pushMainIdea(s, msg) EXCEPT
               !.pending = IF Len(s.frame.mainIdeas) + 1 = 2
                           THEN Pending("offerThirdMainIdea")
                           ELSE null]
       ELSE cleared
  ELSE IF isDetailsStage(stage)
  THEN Only({IF Len(arr) < 2 /\ ~isNegative(msg)
             THEN [s EXCEPT !.frame.details = setBucket(s.frame.details, idx, Append(arr, msg)),
                            !.pending = IF Len(arr) + 1 = 2
                                        THEN PendingAt("offerThirdDetail", idx)
                                        ELSE null]
             ELSE cleared :
             idx \in {stageIndex(stage)},
             arr \in {bucket(s.frame.details, stageIndex(stage))}})
  ELSE IF stage = "soWhat"
  THEN IF s.frame.soWhat = "" /\ ~isNegative(msg)
       THEN [s EXCEPT !.frame.soWhat = msg, !.pending = Pending("offerMoreSoWhat")]
       ELSE cleared
  ELSE cleared :
  stage \in {Or(s.pending.stage, getStage(s))},
  wc \in {wordCount(msg)},
  cleared \in {[s EXCEPT !.pending = null]}})

updConfirmIsAboutClearing(s, msg) ==
  IF isAffirmative(trim(toLowerCase(msg)))
  THEN [s EXCEPT !.pending = null]
  ELSE [s EXCEPT !.frame.isAbout = "", !.pending = null]

\* the confirmation dropping the revised statement
updConfirmIsAboutKeeping(s, msg) == [s EXCEPT !.pending = null]

updConfirmIsAbout(s, msg) ==
  IF isAffirmative(trim(toLowerCase(msg)))
  THEN [s EXCEPT !.pending = null]
  ELSE [storeIsAbout(s, msg, FALSE) EXCEPT !.pending = null]

\* the main-ideas confirmation that no reply ends
updConfirmMainIdeasDeaf(s, msg) == s

updConfirmMainIdeas(s, msg) ==
  IF isAffirmative(trim(toLowerCase(msg))) THEN [s EXCEPT !.pending = null] ELSE s

\* the offer taking every reply but a negation as acceptance
updOfferThirdMainIdeaUnlessNo(s, msg) ==
  IF ~isNegative(msg)
  THEN [s EXCEPT !.pending = Pending("collectThirdMainIdea")]
  ELSE [s EXCEPT !.pending = Pending("confirmMainIdeas")]

updOfferThirdMainIdea(s, msg) ==
  IF isAffirmative(trim(toLowerCase(msg)))
  THEN [s EXCEPT !.pending = Pending("collectThirdMainIdea")]
  ELSE [s EXCEPT !.pending = Pending("confirmMainIdeas")]

updCollectThirdMainIdeaNoBucket(s, msg) ==
  [(IF ~isNegative(msg) THEN pushMainIdeaNoBucket(s, msg) ELSE s)
     EXCEPT !.pending = Pending("confirmMainIdeas")]

updCollectThirdMainIdea(s, msg) ==
  [(IF ~isNegative(msg) THEN pushMainIdea(s, msg) ELSE s)
     EXCEPT !.pending = Pending("confirmMainIdeas")]

updOfferThirdDetail(s, msg) ==
  IF isAffirmative(trim(toLowerCase(msg)))
  THEN [s EXCEPT !.pending = PendingAt("collectThirdDetail", s.pending.index)]
  ELSE [s EXCEPT !.pending = PendingAt("confirmDetails", s.pending.index)]

updCollectThirdDetailReplacing(s, msg) ==
  [s EXCEPT !.frame.details = setBucket(s.frame.details, s.pending.index,
                                        IF ~isNegative(msg) THEN <<msg>> ELSE << >>),
            !.pending = PendingAt("confirmDetails", s.pending.index)]

\* the third-detail collection that goes on collecting
updCollectThirdDetailStaying(s, msg) ==
  [s EXCEPT !.frame.details =
              setBucket(s.frame.details, s.pending.index,
                        IF ~isNegative(msg)
                        THEN Append(bucket(s.frame.details, s.pending.index), msg)
                        ELSE bucket(s.frame.details, s.pending.index))]

updCollectThirdDetail(s, msg) ==
  Only({[s EXCEPT !.frame.details = setBucket(s.frame.details, idx,
                                              IF ~isNegative(msg) THEN Append(arr, msg) ELSE arr),
                  !.pending = PendingAt("confirmDetails", idx)] :
        idx \in {s.pending.index},
        arr \in {bucket(s.frame.details, s.pending.index)}})

updConfirmDetails(s, msg) ==
  IF isAffirmative(trim(toLowerCase(msg))) THEN [s EXCEPT !.pending = null] ELSE s

updOfferMoreSoWhat(s, msg) ==
  IF isAffirmative(trim(toLowerCase(msg)))
  THEN [s EXCEPT !.pending = Pending("collectMoreSoWhat")]
  ELSE [s EXCEPT !.pending = Pending("confirmSoWhat")]

updCollectMoreSoWhat(s, msg) ==
  [s EXCEPT !.frame.soWhat = IF ~isNegative(msg) THEN cleanText(s.frame.soWhat \o " " \o msg)
                             ELSE s.frame.soWhat,
            !.pending = Pending("confirmSoWhat")]

updConfirmSoWhat(s, msg) ==
  IF isAffirmative(trim(toLowerCase(msg)))
  THEN IF isFrameComplete(s) /\ ~s.flags.exportOffered
       THEN [s EXCEPT !.flags.exportOffered = TRUE, !.pending = Pending("offerExport")]
       ELSE [s EXCEPT !.pending = null]
  ELSE [s EXCEPT !.frame.soWhat = msg, !.pending = null]

updOfferExport(s, msg) ==
  IF isAffirmative(trim(toLowerCase(msg)))
  THEN [s EXCEPT !.pending = Pending("chooseExportType")]
  ELSE [s EXCEPT !.pending = null]

updChooseExportType(s, msg) ==
  Only({[s EXCEPT !.flags.exportChoice = IF includes(normalized, "both") THEN "both"
                                         ELSE IF includes(normalized, "frame") THEN "frame"
                                         ELSE IF includes(normalized, "transcript") THEN "transcript"
                                         ELSE "both",
                  !.pending = null] :
        normalized \in {trim(toLowerCase(msg))}})

\* 1) Extraction rule: "X is about Y"
\* the tail of the extraction rule: the cause/effect pair of the
\* Writing + Cause-and-Effect frame, then the Is-About checkpoint
extractionCheckpoint(s1) ==
  [s1 EXCEPT !.frameMeta.causeEffect = IF isWriteCauseEffect(s1)
                                       THEN parseCauseEffectLeadsTo(s1.frame.isAbout)
                                       ELSE s1.frameMeta.causeEffect,
             !.pending = Pending("confirmIsAbout")]

captureExtractionOverwriting(s, parsed) ==
  Only({extractionCheckpoint(s1) :
        s1 \in {[s EXCEPT !.frame.keyTopic = parsed.keyTopic,
                          !.frame.isAbout = IF s.frame.isAbout = "" THEN parsed.isAbout
                                            ELSE s.frame.isAbout]}})

captureExtraction(s, parsed) ==
  Only({extractionCheckpoint(s1) :
        s1 \in {[s EXCEPT !.frame.keyTopic = IF s.frame.keyTopic = "" THEN parsed.keyTopic
                                             ELSE s.frame.keyTopic,
                          !.frame.isAbout = IF s.frame.isAbout = "" THEN parsed.isAbout
                                            ELSE s.frame.isAbout]}})

captureKeyTopicAnyLength(s, msg) ==
  IF ~isBadKeyTopic(msg) THEN [s EXCEPT !.frame.keyTopic = msg] ELSE s

\* the key-topic capture storing the message as the statement too
captureKeyTopicAlsoIsAbout(s, msg) ==
  IF ~isBadKeyTopic(msg) /\ wordCount(msg) >= 2 /\ wordCount(msg) <= 5
  THEN [s EXCEPT !.frame.keyTopic = msg, !.frame.isAbout = msg]
  ELSE s

\* 2) Key Topic capture (plain 2-5 words)
captureKeyTopic(s, msg) ==
  LET wc == wordCount(msg) IN
  IF ~isBadKeyTopic(msg) /\ wc >= 2 /\ wc <= 5 THEN [s EXCEPT !.frame.keyTopic = msg] ELSE s

\* 3) Is About capture + checkpoint
captureIsAbout(s, msg) ==
  IF trim(toLowerCase(msg)) \notin {"revise", "change"}
  THEN [storeIsAbout(s, msg, FALSE) EXCEPT !.pending = Pending("confirmIsAbout")]
  ELSE s

\* the main-ideas capture storing whatever the learner says
captureMainIdeaAnyText(s, msg) ==
  [pushMainIdea(s, msg) EXCEPT
     !.pending = IF Len(s.frame.mainIdeas) + 1 = 2 THEN Pending("offerThirdMainIdea")
                 ELSE s.pending]

\* 4) Main Ideas capture
captureMainIdea(s, msg) ==
  IF ~isNegative(msg)
  THEN [pushMainIdea(s, msg) EXCEPT
          !.pending = IF Len(s.frame.mainIdeas) + 1 = 2 THEN Pending("offerThirdMainIdea")
                      ELSE s.pending]
  ELSE s

\* the details capture offering a third detail after every stored detail
captureDetailOfferingEach(s, msg, i) ==
  IF ~isNegative(msg)
  THEN [s EXCEPT !.frame.details =
                   setBucket(s.frame.details, i, Append(bucket(s.frame.details, i), msg)),
                 !.pending = PendingAt("offerThirdDetail", i)]
  ELSE s

captureDetailOneBased(s, msg, i) ==
  Only({IF Len(bucket(s1.frame.details, i)) = 2
        THEN [s1 EXCEPT !.pending = PendingAt("offerThirdDetail", i + 1)]
        ELSE s1 :
        s1 \in {IF ~isNegative(msg)
                THEN [s EXCEPT !.frame.details =
                        setBucket(s.frame.details, i, Append(bucket(s.frame.details, i), msg))]
                ELSE s}})

\* 5) Details capture for the lowest bucket i holding fewer than 2 entries
captureDetail(s, msg, i) ==
  Only({IF Len(bucket(s1.frame.details, i)) = 2
        THEN [s1 EXCEPT !.pending = PendingAt("offerThirdDetail", i)]
        ELSE s1 :
        s1 \in {IF ~isNegative(msg)
                THEN [s EXCEPT !.frame.details =
                        setBucket(s.frame.details, i, Append(bucket(s.frame.details, i), msg))]
                ELSE s}})

\* 6) So What capture
captureSoWhat(s, msg) ==
  IF ~isNegative(msg)
  THEN [s EXCEPT !.frame.soWhat = msg, !.pending = Pending("offerMoreSoWhat")]
  ELSE s

normalCapture(s, msg) ==
  Only({
  IF parsed.ok THEN captureExtraction(s, parsed)
  ELSE IF s.frame.keyTopic = "" THEN captureKeyTopic(s, msg)
  ELSE IF s.frame.isAbout = "" THEN captureIsAbout(s, msg)
  ELSE IF Len(s.frame.mainIdeas) < 2 THEN captureMainIdea(s, msg)
  ELSE IF \E i \in 0..(Len(s.frame.mainIdeas) - 1) : Len(bucket(s.frame.details, i)) < 2
  THEN captureDetail(s, msg, CHOOSE i \in 0..(Len(s.frame.mainIdeas) - 1) :
                               /\ Len(bucket(s.frame.details, i)) < 2
                               /\ \A j \in 0..(i - 1) : Len(bucket(s.frame.details, j)) >= 2)
  ELSE IF s.frame.soWhat = "" THEN captureSoWhat(s, msg)
  ELSE s :
  parsed \in {parseKeyTopicIsAbout(msg)}})

\* the body of updateStateFromStudent on msg = cleanText(message) and the
\* clone s of the state with its buckets ensured
updateClone(s, msg) ==
  Only({
  IF s.frameMeta.purpose = "" /\ s.pending.type = "" /\ p # ""
  THEN [s EXCEPT !.frameMeta.purpose = p]
  ELSE IF s.frameMeta.purpose # "" /\ s.frameMeta.frameType = "" /\ s.pending.type = "" /\ ft # ""
  THEN [s EXCEPT !.frameMeta.frameType = ft]
  ELSE CASE s.pending.type = "confirmLanguageSwitch" -> updConfirmLanguageSwitch(s, msg)
         [] s.pending.type = "stuckConfirm" -> updStuckConfirm(s, msg)
         [] s.pending.type = "stuckMenu" -> updStuckMenu(s, msg)
         [] s.pending.type = "stuckSkip" -> updStuckSkip(s, msg)
         [] s.pending.type = "stuckMini" -> updStuckMini(s, msg)
         [] s.pending.type = "confirmIsAbout" -> updConfirmIsAbout(s, msg)
         [] s.pending.type = "confirmMainIdeas" -> updConfirmMainIdeas(s, msg)
         [] s.pending.type = "offerThirdMainIdea" -> updOfferThirdMainIdea(s, msg)
         [] s.pending.type = "collectThirdMainIdea" -> updCollectThirdMainIdea(s, msg)
         [] s.pending.type = "offerThirdDetail" -> updOfferThirdDetail(s, msg)
         [] s.pending.type = "collectThirdDetail" -> updCollectThirdDetail(s, msg)
         [] s.pending.type = "confirmDetails" -> updConfirmDetails(s, msg)
         [] s.pending.type = "offerMoreSoWhat" -> updOfferMoreSoWhat(s, msg)
         [] s.pending.type = "collectMoreSoWhat" -> updCollectMoreSoWhat(s, msg)
         [] s.pending.type = "confirmSoWhat" -> updConfirmSoWhat(s, msg)
         [] s.pending.type = "offerExport" -> updOfferExport(s, msg)
         [] s.pending.type = "chooseExportType" -> updChooseExportType(s, msg)
         [] OTHER -> normalCapture(IF s.pending.type = "stuckReask"
                                   THEN [s EXCEPT !.pending = null]
                                   ELSE s, msg) :
  p \in {normalizePurpose(msg)},
  ft \in {normalizeFrameTypeSelection(msg)}})

updateStateFromStudent(state, message) == updateClone(ensureBuckets(state), cleanText(message))

(***************************************************************************)
(* COLLABORATORS                                                           *)
(* The answer of a language-model call is an input of the turn: the        *)
(* record llm holds what the detector, the yes/no classifier and the       *)
(* translator answer in this turn.                                          *)
(***************************************************************************)
LANG_DETECT_MIN_CHARS == 18

\* the detector's null (no answer, a throw, code "und", confidence < 0.75)
NoLanguage == [code |-> "", name |-> "", nativeName |-> "", dir |-> ""]

Spanish == [code |-> "es", name |-> "Spanish", nativeName |-> "Espanol", dir |-> "ltr"]

English == [code |-> "en", name |-> "English", nativeName |-> "English", dir |-> "ltr"]

detectLanguageViaLLM(text, answer) ==
  Only({IF input = "" \/ Len(input) < LANG_DETECT_MIN_CHARS THEN NoLanguage
        ELSE IF isAffirmative(low) \/ isNegative(low) \/ low \in {"ok", "okay", "correct"}
        THEN NoLanguage
        ELSE answer :
        input \in {cleanText(text)},
        low \in {toLowerCase(cleanText(text))}})

classifyYesNoViaLLM(text, answer) ==
  IF cleanText(text) = "" THEN "unknown"
  ELSE IF answer \in {"yes", "no"} THEN answer ELSE "unknown"

translateQuestionViaLLMNoFallback(question, out) == out

\* out = "" stands for an empty completion or a throw: both give back q
translateQuestionViaLLM(question, out) ==
  enforceSingleQuestion(Or(out, enforceSingleQuestion(question)))

\* lib/safetyCheck.js: the record it returns has no property "blocked"
safetySignals(message) ==
  Only({
  IF \E sig \in {"kill myself", "hurt myself", "end my life", "suicide"} : includes(text, sig)
  THEN [flagged |-> TRUE, severity |-> "A", flagCategory |-> "SELF_HARM"]
  ELSE IF \E sig \in {"bring a weapon", "shoot", "stab", "hurt someone", "kill him", "kill her"} :
            includes(text, sig)
  THEN [flagged |-> TRUE, severity |-> "A", flagCategory |-> "VIOLENCE"]
  ELSE IF \E sig \in {"i'm worthless", "i am worthless", "i hate myself", "nothing matters",
                      "i want to disappear"} : includes(text, sig)
  THEN [flagged |-> TRUE, severity |-> "B", flagCategory |-> "SEVERE_NEGATIVE_SELF_TALK"]
  ELSE IF \E sig \in {"you're stupid", "i hate you", "go die"} : includes(text, sig)
  THEN [flagged |-> TRUE, severity |-> "B", flagCategory |-> "BULLYING"]
  ELSE [flagged |-> FALSE, severity |-> "", flagCategory |-> ""] :
  text \in {toLowerCase(message)}})

classifyMessageOf == [t \in Texts |-> safetySignals(t)]

classifyMessage(message) == Memo(classifyMessageOf, message, safetySignals(message))

\* safety?.blocked
blocked(safety) == IF "blocked" \in DOMAIN safety THEN safety["blocked"] ELSE FALSE

\* lib/safetyResponses.js is not part of the sources: the fixed safe redirect
SAFETY_RESPONSES == "Let's pause the Frame for a moment. Who is a trusted adult you can talk to right now?"

ERROR_REPLY == "Hmm - I had trouble processing that. Can you try again?"

(***************************************************************************)
(* HANDLER                                                                 *)
(***************************************************************************)
TRANSCRIPT_MAX_TURNS == 200

\* xs.slice(-n)
lastTurns(xs, n) == IF Len(xs) > n THEN SubSeq(xs, Len(xs) - n + 1, Len(xs)) ELSE xs

appendTurnKeepOldest(turns, role, text) ==
  IF cleanText(text) = "" THEN turns
  ELSE SubSeq(Append(turns, [role |-> role, text |-> cleanText(text)]), 1,
              IF Len(turns) + 1 > TRANSCRIPT_MAX_TURNS THEN TRANSCRIPT_MAX_TURNS
              ELSE Len(turns) + 1)

\* appendTurn(s, role, text) on the transcript of s
appendTurn(turns, role, text) ==
  Only({IF t = "" THEN turns
        ELSE lastTurns(Append(turns, [role |-> role, text |-> t]), TRANSCRIPT_MAX_TURNS) :
        t \in {cleanText(text)}})

\* the transcript of the state document as the handler reads it back
normalizeTranscript(raw) ==
  lastTurns(SelectSeq([k \in 1..Len(raw) |-> [role |-> cleanText(raw[k].role),
                                               text |-> cleanText(raw[k].text)]],
                      LAMBDA t : t.role # "" /\ t.text # ""),
            TRANSCRIPT_MAX_TURNS)

\* the transcript a turn returns for the transcript raw of the request:
\* every branch of the handler that answers appends the learner's message,
\* when there is one, and then the reply
turnTranscript(raw, message, reply) ==
  appendTurn(IF message # "" THEN appendTurn(normalizeTranscript(raw), "Student", message)
             ELSE normalizeTranscript(raw),
             "Kaw", reply)

\* the response of the catch block: a fresh state document and a fixed reply
handlerCatch ==
  [state |-> defaultState, reply |-> ERROR_REPLY, path |-> "error"]

\* xs.map(cleanText).filter(Boolean)
RECURSIVE cleanList(_)
cleanList(xs) ==
  IF Len(xs) = 0 THEN << >>
  ELSE IF cleanText(xs[1]) = "" THEN cleanList(Tail(xs))
  ELSE <<cleanText(xs[1])>> \o cleanList(Tail(xs))

\* the state document as the handler reads it back from the request body
normalizeIncomingState(raw) ==
  Only({
  [frameMeta |-> [purpose |-> cleanText(raw.frameMeta.purpose),
                  frameType |-> cleanText(raw.frameMeta.frameType),
                  causeEffect |-> [cause |-> cleanText(raw.frameMeta.causeEffect.cause),
                                   effect |-> cleanText(raw.frameMeta.causeEffect.effect)]],
   frame |-> [keyTopic |-> cleanText(raw.frame.keyTopic),
              isAbout |-> cleanText(raw.frame.isAbout),
              mainIdeas |-> mainIdeas,
              details |-> [k \in 1..(IF Len(mainIdeas) > Len(details) THEN Len(mainIdeas)
                                     ELSE Len(details)) |->
                             IF k <= Len(details) THEN details[k] ELSE << >>],
              soWhat |-> cleanText(raw.frame.soWhat)],
   pending |-> raw.pending,
   settings |-> [language |-> Or(cleanText(Or(raw.settings.language, "en")), "en"),
                 languageName |-> Or(cleanText(Or(raw.settings.languageName, "English")), "English"),
                 languageNativeName |->
                   Or(cleanText(Or(raw.settings.languageNativeName, "English")), "English"),
                 dir |-> IF raw.settings.dir = "rtl" THEN "rtl" ELSE "ltr",
                 languageLocked |-> raw.settings.languageLocked],
   flags |-> raw.flags,
   skips |-> cleanList(raw.skips)] :
  mainIdeas \in {cleanList(raw.frame.mainIdeas)},
  details \in {[k \in 1..Len(raw.frame.details) |-> cleanList(raw.frame.details[k])]}})

\* reply of a turn: the router's question, translated when the session is
\* locked to another language than English
replyFor(state, llm) ==
  Only({IF state.settings.languageLocked /\ state.settings.language # "en"
        THEN translateQuestionViaLLM(question, llm.translation)
        ELSE question :
        question \in {enforceSingleQuestion(computeNextQuestion(state))}})

inProtectedPending(pendingType) ==
  pendingType \in {"confirmLanguageSwitch", "stuckConfirm", "stuckMenu", "stuckReask",
                   "stuckMini", "stuckSkip"}

stuckConfirmPendingFresh(state, message) ==
  [null EXCEPT !.type = "stuckConfirm",
               !.stage = getStage(state),
               !.tone = detectStuckTone(message),
               !.resumeQuestion = buildMiniQuestion(state),
               !.miniQuestion = buildMiniQuestion(state)]

\* the pending object of a stuck interrupt: it captures the question of the
\* state as it is when the stuck message arrives
stuckConfirmPending(state, message) ==
  [null EXCEPT !.type = "stuckConfirm",
               !.stage = getStage(state),
               !.tone = detectStuckTone(message),
               !.resumeQuestion = enforceSingleQuestion(computeNextQuestion(state)),
               !.miniQuestion = buildMiniQuestion(state)]

\* the response of a turn that ends in the state s
respond(s, llm, branch) == [state |-> s, reply |-> replyFor(s, llm), path |-> branch]

languagePending(detected) ==
  [null EXCEPT !.type = "confirmLanguageSwitch",
               !.candidateCode = detected.code,
               !.candidateName = detected.name,
               !.candidateNativeName = detected.nativeName,
               !.candidateDir = detected.dir]

\* the language question asked again, in the candidate language
languageReask(state, reply, llm) ==
  [state |-> state,
   reply |-> IF state.pending.candidateCode # "en"
             THEN translateQuestionViaLLM(reply, llm.translation)
             ELSE reply,
   path |-> "languageReask"]

\* a reply to the language question that is neither a plain yes nor a plain no
unclearLanguageAnswer(state, message) ==
  /\ state.pending.type = "confirmLanguageSwitch"
  /\ ~isAffirmative(trim(toLowerCase(message)))
  /\ ~isNegative(trim(toLowerCase(message)))

\* the branch that answers a message which is neither blocked, nor met with
\* the language question, nor an unclear reply to it
turnBranch(state, message) ==
  IF message = "" THEN "noMessage"
  ELSE IF state.pending.type = "confirmLanguageSwitch" THEN "languageAnswer"
  ELSE IF ~inProtectedPending(state.pending.type) /\ isStuckMessage(message) THEN "stuckEntry"
  ELSE "normal"

\* the state that branch leaves: the updater receives the classifier's verdict
\* in place of an unclear reply to the language question
turnState(state, message, llm, branch) ==
  IF branch = "noMessage" THEN state
  ELSE IF branch = "stuckEntry"
  THEN [state EXCEPT !.pending = stuckConfirmPending(state, message)]
  ELSE updateStateFromStudent(state, IF unclearLanguageAnswer(state, message)
                                     THEN classifyYesNoViaLLM(message, llm.yn)
                                     ELSE message)

turn(state, message, llm, branch) ==
  respond(turnState(state, message, llm, branch), llm, branch)

\* the body of the handler on message = cleanText(body.message), state =
\* normalizeIncomingState(body.state) and the detector's answer for message
handle(state, message, detected, llm) ==
  IF message # "" /\ blocked(classifyMessage(message))
  THEN [state |-> state, reply |-> enforceSingleQuestion(SAFETY_RESPONSES), path |-> "safety"]
  ELSE IF /\ message # ""
          /\ ~state.settings.languageLocked
          /\ state.pending.type # "confirmLanguageSwitch"
          /\ detected.code # ""
          /\ detected.code # "en"
  THEN Only({[state |-> asked,
              reply |-> enforceSingleQuestion(computeNextQuestion(asked)),
              path |-> "languagePrompt"] :
             asked \in {[state EXCEPT !.pending = languagePending(detected)]}})
  ELSE IF /\ message # ""
          /\ unclearLanguageAnswer(state, message)
          /\ classifyYesNoViaLLM(message, llm.yn) \notin {"yes", "no"}
  THEN languageReask(state, enforceSingleQuestion(computeNextQuestion(state)), llm)
  ELSE turn(state, message, llm, turnBranch(state, message))

\* one POST: the new state document, the reply, and the branch that answered
handler(rawState, rawMessage, llm) ==
  Only({handle(normalizeIncomingState(rawState), message,
               detectLanguageViaLLM(message, llm.detected), llm) :
        message \in {cleanText(rawMessage)}})

(***************************************************************************)
(* THE LEARNER                                                             *)
(* The learner sends the raw messages of Msgs.  A cooperative learner      *)
(* answers the question asked: a purpose, a frame type, a topic, content,  *)
(* "yes" to a confirmation, "no" to an optional offer.  A session holds at *)
(* most MaxOffScript turns that leave this script (any other message of    *)
(* Msgs, or a message the detector reports as written in another           *)
(* language).                                                              *)
(***************************************************************************)
MaxOffScript == 1

\* the skips list grows with every "skip for now": at most MaxSkips entries
MaxSkips == 2

StageAnswers(stage, s) ==
  IF stage = "purpose" THEN {"1", "2"}
  ELSE IF stage = "frameType" THEN {"1"}
  ELSE IF stage = "keyTopic" THEN {TopicMsg}
  ELSE IF stage = "isAbout" THEN {IsAboutMsg}
  ELSE IF stage = "mainIdeas" THEN (IF Len(s.frame.mainIdeas) = 0 THEN {QuestionMsg} ELSE {ContentMsg})
  ELSE IF stage = "refine" THEN {}
  ELSE {ContentMsg}

\* the answers of a cooperative learner to the question of state s
Expected(s) ==
  LET t == s.pending.type IN
  IF t = "confirmLanguageSwitch" THEN {"yes", "no", "si"}
  ELSE IF t \in {"stuckConfirm", "stuckSkip"} THEN {"yes", "no"}
  ELSE IF t = "stuckMenu" THEN {"1", "2", "3", "4"}
  ELSE IF t \in {"confirmIsAbout", "confirmMainIdeas", "confirmDetails", "confirmSoWhat"} THEN {"yes"}
  ELSE IF t \in {"offerThirdMainIdea", "offerThirdDetail", "offerMoreSoWhat", "offerExport"} THEN {"no"}
  ELSE IF t \in {"collectThirdMainIdea", "collectThirdDetail", "collectMoreSoWhat"} THEN {ContentMsg}
  ELSE IF t = "chooseExportType" THEN {"frame"}
  ELSE IF t = "stuckMini" THEN StageAnswers(Or(s.pending.stage, getStage(s)), s)
  ELSE StageAnswers(getStage(s), s)

\* what the language-model calls may answer
Detections == {NoLanguage, English, Spanish}

YesNoAnswers == {"yes", "no", "unknown"}

Translations == {"", "Cual es tu tema? Puedes decirlo en pocas palabras?", "Dime mas."}

(***************************************************************************)
(* THE SESSION                                                             *)
(* state, reply: the response of the last turn (the client sends state     *)
(* back with the next message); prev, lastMsg, path: the state document    *)
(* and the cleaned message of that turn's request and the branch of the    *)
(* handler that answered it; offScript: the off-script turns so far.       *)
(* transcript: the transcript of the response.  No decision reads it, and  *)
(* the client of Spec and SpecFail sends the state document back without   *)
(* it, so that it holds the entries of the last turn; the client of        *)
(* SpecTranscript sends it back in full.  The export documents, which no   *)
(* decision reads, are left out.                                           *)
(***************************************************************************)
VARIABLES state, reply, prev, lastMsg, path, offScript, transcript

vars == <<state, reply, prev, lastMsg, path, offScript, transcript>>

NoLLM == [detected |-> NoLanguage, yn |-> "unknown", translation |-> ""]

\* the first request of a session carries no message and no state
Init ==
  \E r \in {handler(defaultState, "", NoLLM)} :
  /\ state = r.state
  /\ reply = r.reply
  /\ prev = defaultState
  /\ lastMsg = ""
  /\ path = r.path
  /\ offScript = 0
  /\ transcript = turnTranscript(<< >>, "", r.reply)

\* the translator is called only in a session locked to another language,
\* or in the turn that answers the language question
TranslationsFor(s) ==
  IF s.pending.type = "confirmLanguageSwitch"
     \/ (s.settings.languageLocked /\ s.settings.language # "en")
  THEN Translations ELSE {""}

YesNoAnswersFor(s, m) ==
  IF s.pending.type = "confirmLanguageSwitch" /\ ~isAffirmative(m) /\ ~isNegative(m)
  THEN YesNoAnswers ELSE {"unknown"}

\* the messages the learner may send in this turn
Allowed == IF offScript < MaxOffScript THEN Msgs ELSE Expected(state)

\* the request (state with the transcript sent, m) with the detector
\* answering d, answered by the branch `branch` of the handler
Request(m, d, branch, sent) ==
  \E yn \in YesNoAnswersFor(state, m), tr \in TranslationsFor(state) :
    \E r \in {handler(state, m, [detected |-> d, yn |-> yn, translation |-> tr])} :
      \E off \in {IF m \in Expected(state) /\ branch # "languagePrompt" THEN 0 ELSE 1} :
        /\ r.path = branch
        /\ offScript + off <= MaxOffScript
        /\ Len(r.state.skips) <= MaxSkips
        /\ state' = r.state
        /\ reply' = r.reply
        /\ prev' = state
        /\ lastMsg' = cleanText(m)
        /\ path' = r.path
        /\ offScript' = offScript + off
        /\ transcript' = turnTranscript(sent, cleanText(m), r.reply)

Answer(m, d, branch) == Request(m, d, branch, << >>)

\* a request without a message: the question is asked again
NoMessageTurn ==
  \E m \in Allowed :
    /\ cleanText(m) = ""
    /\ Answer(m, NoLanguage, "noMessage")

\* the detector reports another language than English
LanguagePrompt ==
  \E m \in Allowed, d \in Detections \ {NoLanguage, English} :
    /\ ~state.settings.languageLocked
    /\ state.pending.type # "confirmLanguageSwitch"
    /\ Len(cleanText(m)) >= LANG_DETECT_MIN_CHARS
    /\ Answer(m, d, "languagePrompt")

\* the answer to the language question is neither yes nor no
LanguageReask ==
  \E m \in Allowed :
    /\ state.pending.type = "confirmLanguageSwitch"
    /\ ~isAffirmative(m) /\ ~isNegative(m)
    /\ Answer(m, NoLanguage, "languageReask")

LanguageAnswer ==
  \E m \in Allowed :
    /\ state.pending.type = "confirmLanguageSwitch"
    /\ Answer(m, NoLanguage, "languageAnswer")

\* the stuck detector interrupts the turn
StuckEntry ==
  \E m \in Allowed, d \in {NoLanguage, English} :
    /\ ~inProtectedPending(state.pending.type)
    /\ isStuckMessage(m)
    /\ Answer(m, d, "stuckEntry")

NormalTurn ==
  \E m \in Allowed, d \in {NoLanguage, English} :
    /\ state.pending.type # "confirmLanguageSwitch"
    /\ cleanText(m) # ""
    /\ inProtectedPending(state.pending.type) \/ ~isStuckMessage(m)
    /\ Answer(m, d, "normal")

Next ==
  \/ NoMessageTurn
  \/ LanguagePrompt
  \/ LanguageReask
  \/ LanguageAnswer
  \/ StuckEntry
  \/ NormalTurn

Spec == Init /\ [][Next]_vars

(***************************************************************************)
(* THE SESSION WITH A FAILING COLLABORATOR                                 *)
(* The three language-model calls catch their own failures (the detector's *)
(* NoLanguage, the classifier's "unknown", the translator's "" above).     *)
(* The safety classifier is awaited inside the handler's try block without *)
(* a catch of its own: when it throws, the catch block answers.            *)
(***************************************************************************)
\* the safety classifier throws on the learner's message
ClassifierThrows ==
  \E m \in Allowed :
    \E off \in {IF m \in Expected(state) THEN 0 ELSE 1} :
      /\ cleanText(m) # ""
      /\ offScript + off <= MaxOffScript
      /\ state' = handlerCatch.state
      /\ reply' = handlerCatch.reply
      /\ prev' = state
      /\ lastMsg' = cleanText(m)
      /\ path' = handlerCatch.path
      /\ offScript' = offScript + off
      /\ transcript' = << >>

NextFail ==
  \/ Next
  \/ ClassifierThrows

SpecFail == Init /\ [][NextFail]_vars

(***************************************************************************)
(* THE TRANSCRIPT OF A LONG SESSION                                        *)
(* The client sends the transcript back with every request.  The session   *)
(* starts after the learner has answered the first question with "no" a    *)
(* number of times, which leaves the state as it was and the transcript    *)
(* near its cap; from there the learner follows the script, with at most   *)
(* MaxOffScript requests without a message.                                *)
(***************************************************************************)
MaxRepeats == 100

RepeatCounts == {0, MaxRepeats - 2, MaxRepeats - 1, MaxRepeats}

\* the transcript after the first question and n turns that answer it "no"
ReAsked(n, question) ==
  lastTurns([k \in 1..(2 * n + 1) |->
               IF k % 2 = 1 THEN [role |-> "Kaw", text |-> cleanText(question)]
               ELSE [role |-> "Student", text |-> "no"]],
            TRANSCRIPT_MAX_TURNS)

InitTranscript ==
  \E n \in RepeatCounts :
    \E r \in {handler(defaultState, IF n = 0 THEN "" ELSE "no", NoLLM)} :
      /\ state = r.state
      /\ reply = r.reply
      /\ prev = defaultState
      /\ lastMsg = IF n = 0 THEN "" ELSE "no"
      /\ path = r.path
      /\ offScript = 0
      /\ transcript = ReAsked(n, r.reply)

\* the learner answers the question asked
ScriptedTurn ==
  \E m \in Expected(state) :
    /\ cleanText(m) # ""
    /\ Request(m, NoLanguage, "normal", transcript)

\* a request without a message: only the reply is appended
EmptyTurn ==
  \E m \in {""} :
    /\ offScript < MaxOffScript
    /\ Request(m, NoLanguage, "noMessage", transcript)

NextTranscript ==
  \/ ScriptedTurn
  \/ EmptyTurn

SpecTranscript == InitTranscript /\ [][NextTranscript]_vars

(***************************************************************************)
(* THE SESSION OF AN EAGER LEARNER                                         *)
(* The purpose and frame-type captures pass a message that names neither   *)
(* on to the slot captures, so a learner may fill the Frame before         *)
(* choosing them.  The eager learner answers either the question asked or  *)
(* the question that would be asked had purpose and frame type been        *)
(* chosen, and may accept the offer of a third main idea or detail; none   *)
(* of this counts as off-script, and the learner sends nothing else.       *)
(***************************************************************************)
\* s with purpose and frame type taken as chosen
Chosen(s) ==
  [s EXCEPT !.frameMeta.purpose = Or(@, "study"),
            !.frameMeta.frameType = Or(@, "causeEffect")]

\* the script, and "yes" to the offer of a third main idea or detail
Willing(s) ==
  Expected(s) \cup (IF s.pending.type \in {"offerThirdMainIdea", "offerThirdDetail"}
                    THEN {"yes"} ELSE {})

\* the request (state, m), which the updater answers; the budget is untouched
Tell(m) ==
  \E r \in {handler(state, m, NoLLM)} :
    /\ r.path = "normal"
    /\ state' = r.state
    /\ reply' = r.reply
    /\ prev' = state
    /\ lastMsg' = cleanText(m)
    /\ path' = r.path
    /\ offScript' = offScript
    /\ transcript' = turnTranscript(<< >>, cleanText(m), r.reply)

\* the learner gives the content the Frame lacks next, whatever was asked
EagerTurn ==
  \E m \in Willing(Chosen(state)) :
    /\ state.frameMeta.purpose = "" \/ state.frameMeta.frameType = ""
    /\ Tell(m)

\* the learner answers the question asked
AskedTurn ==
  \E m \in Willing(state) :
    /\ cleanText(m) # ""
    /\ Tell(m)

NextEager ==
  \/ AskedTurn
  \/ EagerTurn

SpecEager == Init /\ [][NextEager]_vars

(***************************************************************************)
(* THE SESSION OF A HESITANT LEARNER                                       *)
(* The learner follows the script, and says "idk" when they like, at most  *)
(* MaxHesitations times in a session: in answer to a question of the       *)
(* Frame, to a confirmation or an offer, and inside the stuck flow.        *)
(* offScript counts the times the learner said "idk".                      *)
(***************************************************************************)
MaxHesitations == 2

\* the request (state, m) and its response, after h hesitations in all
Say(m, h) ==
  \E r \in {handler(state, m, NoLLM)} :
    /\ Len(r.state.skips) <= MaxSkips
    /\ state' = r.state
    /\ reply' = r.reply
    /\ prev' = state
    /\ lastMsg' = cleanText(m)
    /\ path' = r.path
    /\ offScript' = h
    /\ transcript' = turnTranscript(<< >>, cleanText(m), r.reply)

\* the learner says "idk"; the stuck detector or the updater answers
Hesitate ==
  \E m \in {"idk"} :
    /\ offScript < MaxHesitations
    /\ Say(m, offScript + 1)

\* the learner answers the question asked
Follow ==
  \E m \in Expected(state) :
    /\ cleanText(m) # ""
    /\ Say(m, offScript)

NextHesitant ==
  \/ Follow
  \/ Hesitate

SpecHesitant == Init /\ [][NextHesitant]_vars

(***************************************************************************)
(* THE SESSION OF A COOPERATIVE LEARNER                                    *)
(* The learner always answers the question asked with an answer it         *)
(* accepts: any of the three purposes and of the three frame types, then   *)
(* the script (a topic, a statement, main ideas, details, a so-what, "yes" *)
(* to every confirmation, "no" to every offer).  The learner keeps         *)
(* answering as long as a question of the script is open.                  *)
(***************************************************************************)
\* the learner names a purpose or a frame type
ChooseTurn ==
  \E m \in {"1", "2", "3"} :
    /\ state.pending.type = ""
    /\ getStage(state) \in {"purpose", "frameType"}
    /\ Say(m, offScript)

\* the learner answers a question about the Frame, a confirmation or an offer
CooperateTurn ==
  \E m \in Expected(state) :
    /\ state.pending.type # "" \/ getStage(state) \notin {"purpose", "frameType"}
    /\ Say(m, offScript)

NextCooperative ==
  \/ ChooseTurn
  \/ CooperateTurn

\* ENABLED <<NextCooperative>>_vars as a state predicate: some answer of
\* ChooseTurn or CooperateTurn leads to a turn that changes vars
CanMove ==
  \E m \in (IF state.pending.type = "" /\ getStage(state) \in {"purpose", "frameType"}
            THEN {"1", "2", "3"}
            ELSE Expected(state)) :
    \E r \in {handler(state, m, NoLLM)} :
      /\ Len(r.state.skips) <= MaxSkips
      /\ <<r.state, r.reply, state, cleanText(m), r.path, offScript,
           turnTranscript(<< >>, cleanText(m), r.reply)>> # vars

\* the learner does not stop answering while an answer would change something:
\* the last conjunct is weak fairness of NextCooperative, WF_vars(NextCooperative),
\* with ENABLED <<NextCooperative>>_vars written as CanMove
SpecCooperative ==
  /\ Init
  /\ [][NextCooperative]_vars
  /\ ([]<>(~CanMove) \/ []<><<NextCooperative>>_vars)

(***************************************************************************)
(* PROPERTIES                                                              *)
(* A property of a turn is stated on the state after it: prev and lastMsg  *)
(* are the request of the turn, state and reply its response.              *)
(***************************************************************************)
StageRank(stage) ==
  CASE stage = "purpose" -> 0
    [] stage = "frameType" -> 1
    [] stage = "keyTopic" -> 2
    [] stage = "isAbout" -> 3
    [] stage = "mainIdeas" -> 4
    [] stage = "soWhat" -> 8
    [] stage = "refine" -> 9
    [] OTHER -> 5 + stageIndex(stage)

EndsWith(s, suffix) ==
  Len(suffix) <= Len(s) /\ SubSeq(s, Len(s) - Len(suffix) + 1, Len(s)) = suffix

StuckFamily == {"stuckConfirm", "stuckMenu", "stuckReask", "stuckNudge", "stuckMini", "stuckSkip"}

\* the reply of the turn is the router's question, not a translation of it
Untranslated == ~(state.settings.languageLocked /\ state.settings.language # "en")

EmptyFrame == defaultState.frame

KeyTopicQuestions ==
  {"What is your Key Topic? (2-5 words)",
   "What event, issue, or situation are you writing about? (2-5 words)"}

\* C1: the reply of every turn, whichever branch of the handler produced it
\* (no message, normal, stuck interrupt, language prompt, language re-ask,
\* translated), holds exactly one "?" character, also when the router's
\* question embeds learner text that holds a "?"; so do the safety redirect
\* as the handler sends it and the fixed reply of the error fallback.
C1_SingleQuestion ==
  /\ countQuestions(reply) = 1
  /\ countQuestions(enforceSingleQuestion(SAFETY_RESPONSES)) = 1
  /\ countQuestions(ERROR_REPLY) = 1

\* a turn whose router question holds more than one "?" because it embeds
\* the learner's text
C1_Witness ==
  /\ countQuestions(computeNextQuestion(state)) > 1
  /\ \E i \in 1..Len(state.frame.mainIdeas) : includes(state.frame.mainIdeas[i], "?")
  /\ countQuestions(reply) = 1

\* C2: monotonic progression: the stage of the state returned by a turn is
\* never earlier, in the order purpose < frameType < keyTopic < isAbout <
\* mainIdeas < details:0 < details:1 < details:2 < soWhat < refine, than the
\* stage of the state the turn received (the program has no revision
\* pending state, so the exception of the claim never applies).
C2_Monotonic == StageRank(getStage(state)) >= StageRank(getStage(prev))

\* a session with three main ideas moves from the details of the third to
\* the so-what
C2_Witness ==
  /\ getStage(prev) = "details:2"
  /\ getStage(state) = "soWhat"

\* C3: topic lock: a turn that starts with keyTopic and isAbout both filled
\* returns the same keyTopic, in every stage and every pending state (this
\* covers every turn after the first confirmIsAbout has cleared, and the
\* confirmIsAbout turns themselves).
C3_TopicLock ==
  (prev.frame.keyTopic # "" /\ prev.frame.isAbout # "")
    => state.frame.keyTopic = prev.frame.keyTopic

\* with the topic locked and no pending, the learner sends "X is about Y"
\* with another label X than the stored Key Topic
C3_Witness ==
  /\ prev.frame.keyTopic # "" /\ prev.frame.isAbout # ""
  /\ prev.pending.type = ""
  /\ path = "normal"
  /\ parseKeyTopicIsAbout(lastMsg).ok
  /\ parseKeyTopicIsAbout(lastMsg).keyTopic # prev.frame.keyTopic
  /\ state.frame.keyTopic = prev.frame.keyTopic

\* C4: combined extraction: in a turn that reaches the updater with no
\* pending and keyTopic and isAbout both empty, whatever purpose and
\* frameType are, a message "X is about Y" with an acceptable label X gives
\* keyTopic = X, isAbout = Y, pending = confirmIsAbout, and the reply is
\* the is-about confirmation question.
C4_CombinedExtraction ==
  (/\ path = "normal"
   /\ prev.pending.type = ""
   /\ prev.frame.keyTopic = "" /\ prev.frame.isAbout = ""
   /\ parseKeyTopicIsAbout(lastMsg).ok)
    => /\ state.frame.keyTopic = parseKeyTopicIsAbout(lastMsg).keyTopic
       /\ state.frame.isAbout = parseKeyTopicIsAbout(lastMsg).isAbout
       /\ state.pending.type = "confirmIsAbout"
       /\ Untranslated => reply = enforceSingleQuestion(pendingQuestion(state))

\* C5: detail bucket invariant: the state returned by every turn has as
\* many detail buckets as main ideas.
C5_DetailBuckets == Len(state.frame.details) = Len(state.frame.mainIdeas)

\* the turn that appends the third main idea
C5_Witness ==
  /\ prev.pending.type = "collectThirdMainIdea"
  /\ Len(prev.frame.mainIdeas) = 2
  /\ Len(state.frame.mainIdeas) = 3
  /\ Len(state.frame.details) = 3

\* C6: Key Topic anchoring: with no pending and the stage mainIdeas or
\* details:i, the router's question holds frame.keyTopic verbatim.
C6_KeyTopicAnchoring ==
  (/\ state.pending.type = ""
   /\ state.frame.keyTopic # ""
   /\ getStage(state) = "mainIdeas" \/ isDetailsStage(getStage(state)))
    => includes(computeNextQuestion(state), state.frame.keyTopic)

\* C7 as stated: in the empty initial state a negation leaves the Frame
\* unchanged and the reply is the Key Topic question.
C7_Original ==
  (/\ prev = defaultState
   /\ path = "normal"
   /\ isNegative(lastMsg))
    => /\ state.frame = prev.frame
       /\ reply \in KeyTopicQuestions

\* C7 amended: with an empty Frame and no pending, a negation leaves the
\* Frame, purpose, frame type and pending unchanged and the reply asks the
\* question of the current stage again: the purpose question in the empty
\* initial state, the Key Topic question exactly when purpose and frame
\* type have been chosen.
C7_Amended ==
  (/\ prev.frame = EmptyFrame
   /\ prev.pending.type = ""
   /\ path = "normal"
   /\ isNegative(lastMsg)
   /\ Untranslated)
    => /\ state.frame = prev.frame
       /\ state.frameMeta = prev.frameMeta
       /\ state.pending = prev.pending
       /\ reply = enforceSingleQuestion(baseQuestion(prev))
       /\ reply \in KeyTopicQuestions <=> getStage(prev) = "keyTopic"
       /\ prev = defaultState => reply = enforceSingleQuestion(baseQuestion(defaultState))

\* "no" sent as the first message of a session
C7_Witness ==
  /\ prev = defaultState
  /\ lastMsg = "no"
  /\ path = "normal"
  /\ state.frame = EmptyFrame
  /\ includes(reply, "How will you use this Frame")

\* the acceptance rule of the slot that the question of state s asks about
Accepts(s, msg) ==
  LET stage == getStage(s) IN
  \/ parseKeyTopicIsAbout(msg).ok /\ s.frame.keyTopic = "" /\ s.frame.isAbout = ""
  \/ stage = "purpose" /\ normalizePurpose(msg) # ""
  \/ stage = "frameType" /\ normalizeFrameTypeSelection(msg) # ""
  \/ stage = "keyTopic" /\ ~isBadKeyTopic(msg) /\ wordCount(msg) \in 2..5
  \/ stage = "isAbout" /\ toLowerCase(msg) \notin {"revise", "change"}
  \/ (stage = "mainIdeas" \/ isDetailsStage(stage) \/ stage = "soWhat") /\ ~isNegative(msg)

\* C8: no-op re-ask: in a turn that reaches the updater with no pending, a
\* message that the slot of the current question does not accept leaves
\* Frame, purpose, frame type and pending unchanged, and the reply is the
\* same question again.
C8_NoOpReask ==
  (/\ path = "normal"
   /\ prev.pending.type = ""
   /\ ~Accepts(prev, lastMsg))
    => /\ state.frame = prev.frame
       /\ state.frameMeta = prev.frameMeta
       /\ state.pending = prev.pending
       /\ Untranslated => reply = enforceSingleQuestion(computeNextQuestion(prev))

\* C9 as stated: a stuck-matching message that arrives while pending is
\* neither a stuck-family state nor confirmLanguageSwitch sets pending to
\* stuckConfirm with the question of the state before the turn as
\* resumeQuestion, and leaves the Frame unchanged.
C9_Original ==
  (/\ lastMsg # ""
   /\ isStuckMessage(lastMsg)
   /\ prev.pending.type \notin StuckFamily \cup {"confirmLanguageSwitch"})
    => /\ state.pending.type = "stuckConfirm"
       /\ state.pending.resumeQuestion = enforceSingleQuestion(computeNextQuestion(prev))
       /\ state.frame = prev.frame

\* C9 amended: the same, unless the language detector reports another
\* language than English for the message (an unlocked session, a message of
\* at least LANG_DETECT_MIN_CHARS characters): that turn asks the language
\* question instead, with the Frame unchanged.
C9_Amended ==
  (/\ lastMsg # ""
   /\ isStuckMessage(lastMsg)
   /\ prev.pending.type \notin StuckFamily \cup {"confirmLanguageSwitch"})
    => /\ state.frame = prev.frame
       /\ state.frameMeta = prev.frameMeta
       /\ IF path = "languagePrompt"
          THEN /\ state.pending.type = "confirmLanguageSwitch"
               /\ ~prev.settings.languageLocked
               /\ Len(lastMsg) >= LANG_DETECT_MIN_CHARS
          ELSE /\ path = "stuckEntry"
               /\ state.pending.type = "stuckConfirm"
               /\ state.pending.resumeQuestion = enforceSingleQuestion(computeNextQuestion(prev))
               /\ state.pending.stage = getStage(prev)

\* a stuck message interrupts the is-about confirmation
C9_Witness ==
  /\ path = "stuckEntry"
  /\ prev.pending.type = "confirmIsAbout"
  /\ state.pending.type = "stuckConfirm"
  /\ state.pending.resumeQuestion = enforceSingleQuestion(pendingQuestion(prev))

\* C10: stuck resume: when the learner declines help at stuckConfirm the
\* reply is the captured resumeQuestion, and when the learner picks the
\* directions, re-read or nudge move the reply ends with it.
C10_StuckResume ==
  /\ (/\ prev.pending.type = "stuckConfirm"
      /\ path = "normal"
      /\ isNegative(lastMsg)
      /\ Untranslated)
       => reply = prev.pending.resumeQuestion
  /\ (/\ prev.pending.type = "stuckMenu"
      /\ path = "normal"
      /\ normalizeStuckChoice(lastMsg) \in {"1", "2", "3"}
      /\ Untranslated)
       => EndsWith(reply, prev.pending.resumeQuestion)

\* the pending types whose handler in the updater stores learner text in
\* the Frame
ContentPendings ==
  {"stuckMini", "confirmIsAbout", "collectThirdMainIdea", "collectThirdDetail",
   "collectMoreSoWhat", "confirmSoWhat"}

\* C11: pending exclusivity: a turn that reaches the updater with a pending
\* state is processed by that state's handler only and never by the default
\* slot-filling code; so when the pending state is not one whose handler
\* stores learner text, the Frame, the purpose and the frame type come back
\* unchanged.
C11_PendingExclusive ==
  (/\ path = "normal"
   /\ prev.pending.type # ""
   /\ prev.pending.type \notin ContentPendings)
    => /\ state.frame = prev.frame
       /\ state.frameMeta = prev.frameMeta

\* C12: fields are never cleared: a turn never empties a filled keyTopic,
\* isAbout or soWhat, never lowers the number of main ideas, never shortens
\* a detail bucket, and never leaves an empty string among the main ideas
\* or details (the program has no revision pending flow that clears a
\* field: a revision at confirmIsAbout or confirmSoWhat replaces the text).
C12_NeverCleared ==
  /\ prev.frame.keyTopic # "" => state.frame.keyTopic # ""
  /\ prev.frame.isAbout # "" => state.frame.isAbout # ""
  /\ prev.frame.soWhat # "" => state.frame.soWhat # ""
  /\ Len(state.frame.mainIdeas) >= Len(prev.frame.mainIdeas)
  /\ \A k \in 1..Len(prev.frame.details) :
       /\ k <= Len(state.frame.details)
       /\ Len(state.frame.details[k]) >= Len(prev.frame.details[k])
  /\ \A k \in 1..Len(state.frame.mainIdeas) : state.frame.mainIdeas[k] # ""
  /\ \A k \in 1..Len(state.frame.details) :
       \A j \in 1..Len(state.frame.details[k]) : state.frame.details[k][j] # ""

\* the learner revises the so-what at its confirmation: the stored text is
\* replaced by another text, with every main idea and detail kept
C12_Witness ==
  /\ prev.pending.type = "confirmSoWhat"
  /\ path = "normal"
  /\ state.frame.soWhat = lastMsg
  /\ state.frame.soWhat # prev.frame.soWhat
  /\ state.frame.mainIdeas = prev.frame.mainIdeas
  /\ state.frame.details = prev.frame.details
  /\ Len(state.frame.details) >= 2

\* C13: export offer: the turn that ends the so-what confirmation with a
\* complete Frame and no earlier offer sets pending to offerExport, whether
\* the learner affirmed the so-what or revised it; and pending becomes
\* offerExport only in a session in which it was not offered before.
C13_ExportOffer ==
  /\ (/\ prev.pending.type = "confirmSoWhat"
      /\ path = "normal"
      /\ state.pending.type # "confirmSoWhat"
      /\ isFrameComplete(state)
      /\ ~prev.flags.exportOffered)
       => /\ state.pending.type = "offerExport"
          /\ state.flags.exportOffered
  /\ (state.pending.type = "offerExport" /\ prev.pending.type # "offerExport")
       => ~prev.flags.exportOffered

\* C14: safety short-circuit: a turn whose message the safety classifier
\* reports as flagged is answered by the fixed safe redirect question, and
\* the Frame, the purpose, the frame type and pending come back as received.
C14_SafetyShortCircuit ==
  (lastMsg # "" /\ classifyMessage(lastMsg).flagged)
    => /\ path = "safety"
       /\ reply = enforceSingleQuestion(SAFETY_RESPONSES)
       /\ state.frame = prev.frame
       /\ state.frameMeta = prev.frameMeta
       /\ state.pending = prev.pending

\* C15: collaborator failure is masked: in a session in which collaborators
\* may fail at any turn (the detector finds nothing, the yes/no classifier
\* answers "unknown", the translator returns nothing, the safety classifier
\* throws), every reply is non-empty and holds exactly one "?"; the reply
\* of a turn in which the safety classifier threw is the fixed fallback
\* question, and the reply of a session locked to another language is a
\* translation cut to one question or, failing that, the router's question.
C15_FailureMasked ==
  /\ reply # ""
  /\ countQuestions(reply) = 1
  /\ path = "error" => reply = ERROR_REPLY
  /\ (path \in {"normal", "stuckEntry", "noMessage", "languageAnswer"} /\ ~Untranslated)
       => reply \in {enforceSingleQuestion(computeNextQuestion(state))}
                      \cup {enforceSingleQuestion(t) : t \in Translations \ {""}}

\* the translator fails in a session locked to Spanish: the reply is the
\* router's question, untranslated
C15_Witness ==
  /\ path = "normal"
  /\ state.settings.languageLocked
  /\ state.settings.language = "es"
  /\ prev.settings.language = "es"
  /\ reply = enforceSingleQuestion(computeNextQuestion(state))

\* C16: a collaborator failure is not fatal to the session: the turn in
\* which an external call throws returns the Frame, the purpose, the frame
\* type and pending exactly as received.
C16_StatePreserved ==
  path = "error"
    => /\ state.frame = prev.frame
       /\ state.frameMeta = prev.frameMeta
       /\ state.pending = prev.pending

\* C17: language lock: the turn that answers the language question locks
\* the session, to the detected candidate on an affirmative reply and to
\* English on a negative one, and clears the question; every turn that
\* starts in a locked session returns the same language settings, still
\* locked, and never asks the language question.
C17_LanguageLock ==
  /\ (path = "languageAnswer" /\ isAffirmative(lastMsg))
       => /\ state.settings.language = prev.pending.candidateCode
          /\ state.settings.languageName = prev.pending.candidateName
  /\ (path = "languageAnswer" /\ isNegative(lastMsg))
       => /\ state.settings.language = "en"
          /\ state.settings.languageName = "English"
  /\ path = "languageAnswer"
       => /\ prev.pending.type = "confirmLanguageSwitch"
          /\ state.settings.languageLocked
          /\ state.pending.type # "confirmLanguageSwitch"
  /\ prev.settings.languageLocked
       => /\ state.settings = prev.settings
          /\ state.pending.type # "confirmLanguageSwitch"
          /\ path \notin {"languagePrompt", "languageReask", "languageAnswer"}

\* a session locked to Spanish receives a message long enough for the
\* language detection
C17_Witness ==
  /\ prev.settings.languageLocked
  /\ prev.settings.language = "es"
  /\ path = "normal"
  /\ Len(lastMsg) >= LANG_DETECT_MIN_CHARS
  /\ state.settings = prev.settings

\* the character budget of a reply
MAX_CHARS == 420

\* C18: character budget: the reply of every turn is at most MAX_CHARS
\* characters long, also when the question embeds learner text (the key
\* topic, the numbered list of main ideas or details, the so-what, the
\* stuck nudges followed by the resume question).
C18_CharBudget == Len(reply) <= MAX_CHARS

\* the entries that the turn just taken appends: the learner's message,
\* when there is one, and then the reply
Appended(message, answer) ==
  (IF message # "" THEN <<[role |-> "Student", text |-> message]>> ELSE << >>)
    \o <<[role |-> "Kaw", text |-> cleanText(answer)]>>

\* C19: transcript bound: the transcript never holds more than
\* TRANSCRIPT_MAX_TURNS entries, and the transcript a turn returns is the
\* transcript it received followed by the learner's message and the reply
\* (its whitespace normalised), cut from the front to the last
\* TRANSCRIPT_MAX_TURNS entries: the oldest entries go first, and the
\* entries kept are unaltered and in their order.
C19_TranscriptBound ==
  /\ [](Len(transcript) <= TRANSCRIPT_MAX_TURNS)
  /\ [][transcript' = lastTurns(transcript \o Appended(lastMsg', reply'),
                                TRANSCRIPT_MAX_TURNS)]_vars

\* a turn with a message on a transcript one entry below the cap: the
\* oldest entry, the first question, is evicted
C19_Witness ==
  /\ Len(transcript) = TRANSCRIPT_MAX_TURNS
  /\ lastMsg \notin {"", "no"}
  /\ transcript[1] = [role |-> "Student", text |-> "no"]
  /\ transcript[TRANSCRIPT_MAX_TURNS - 1] = [role |-> "Student", text |-> lastMsg]
  /\ transcript[TRANSCRIPT_MAX_TURNS] = [role |-> "Kaw", text |-> cleanText(reply)]

\* a letter, a digit or "_" (\w of a regular expression)
IsWordChar(c) ==
  c \in {LowerOf[k] : k \in DOMAIN LowerOf} \cup DOMAIN LowerOf
          \cup {"0", "1", "2", "3", "4", "5", "6", "7", "8", "9", "_"}

\* the sufficiency check of an is-about statement: 6 to 220 characters, not
\* starting with a vague term
hasMeaningfulIsAbout(isAbout) ==
  LET ia == cleanText(isAbout) IN
  /\ Len(ia) >= 6
  /\ Len(ia) <= 220
  /\ ~\E w \in {"stuff", "things", "a topic", "government", "history", "science"} :
        /\ startsWith(toLowerCase(ia), w)
        /\ Len(ia) = Len(w) \/ ~IsWordChar(CharAt(ia, Len(w) + 1))

\* C20: sufficiency gate: in a turn that reaches the is-about capture (no
\* pending, the stage isAbout, the message not of the form "X is about Y"),
\* a candidate that fails the sufficiency check leaves isAbout empty and
\* pending as it was, and the is-about question is asked again.
C20_SufficiencyGate ==
  (/\ path = "normal"
   /\ prev.pending.type = ""
   /\ getStage(prev) = "isAbout"
   /\ ~parseKeyTopicIsAbout(lastMsg).ok
   /\ ~hasMeaningfulIsAbout(lastMsg))
    => /\ state.frame.isAbout = ""
       /\ state.pending = prev.pending
       /\ Untranslated => reply = enforceSingleQuestion(computeNextQuestion(prev))

\* C21: the resume payload is carried unmodified: when the updater takes a
\* stuck-family pending state to a stuck-family pending state (stuckConfirm
\* to stuckMenu, stuckMenu to stuckReask, stuckNudge or stuckSkip, stuckSkip
\* to stuckMini or back to stuckConfirm, or an unclear reply that leaves the
\* state where it is), the resumeQuestion of the new pending equals the
\* resumeQuestion of the previous one.
C21_ResumeCarried ==
  (/\ path = "normal"
   /\ prev.pending.type \in StuckFamily
   /\ state.pending.type \in StuckFamily)
    => /\ state.pending.resumeQuestion = prev.pending.resumeQuestion
       /\ state.pending.resumeQuestion # ""

\* the learner declines the smaller question at stuckSkip: back to
\* stuckConfirm with the question captured at entry
C21_Witness ==
  /\ path = "normal"
  /\ prev.pending.type = "stuckSkip"
  /\ state.pending.type = "stuckConfirm"
  /\ state.pending.resumeQuestion = prev.pending.resumeQuestion
  /\ state.pending.resumeQuestion # prev.pending.miniQuestion

\* C22: combined extraction takes effect only when both slots are empty: a
\* message "X is about Y" that reaches the updater with no pending while
\* keyTopic and isAbout are both filled (the main-ideas, details, so-what
\* and refine stages) does not enter confirmIsAbout.
C22_ExtractionOnlyWhenEmpty ==
  (/\ path = "normal"
   /\ prev.pending.type = ""
   /\ prev.frame.keyTopic # "" /\ prev.frame.isAbout # ""
   /\ parseKeyTopicIsAbout(lastMsg).ok)
    => state.pending.type # "confirmIsAbout"

\* the Frame fields of f and g agree except for the slot that stage names
\* (a new main idea comes with its empty detail bucket)
SameButSlot(f, g, stage) ==
  /\ stage # "keyTopic" => g.keyTopic = f.keyTopic
  /\ stage # "isAbout" => g.isAbout = f.isAbout
  /\ stage # "mainIdeas" => g.mainIdeas = f.mainIdeas
  /\ stage # "soWhat" => g.soWhat = f.soWhat
  /\ \A k \in 1..Len(f.details) :
       (~isDetailsStage(stage) \/ stageIndex(stage) + 1 # k)
         => (k <= Len(g.details) /\ g.details[k] = f.details[k])
  /\ \A k \in (Len(f.details) + 1)..Len(g.details) :
       (~isDetailsStage(stage) \/ stageIndex(stage) + 1 # k) => g.details[k] = << >>

\* C23: updater and router agree on the open slot: a turn that reaches the
\* updater with no pending, on a message that is not of the form "X is
\* about Y", changes no Frame field other than the slot named by getStage
\* for the state before the turn; while that stage is purpose or frameType
\* (or refine) no Frame field changes.
C23_OpenSlotOnly ==
  (/\ path = "normal"
   /\ prev.pending.type = ""
   /\ ~parseKeyTopicIsAbout(lastMsg).ok)
    => SameButSlot(prev.frame, state.frame, getStage(prev))

\* C24: a negation reply ("no", "nope", "nah", "none", "n/a") given while
\* main ideas or details are being collected, with no pending, means "no
\* more of this kind" and advances past that bucket: the stage after the
\* turn is a later one than the stage before it.
C24_NegationAdvances ==
  (/\ path = "normal"
   /\ prev.pending.type = ""
   /\ (getStage(prev) = "mainIdeas" \/ isDetailsStage(getStage(prev)))
   /\ isNegative(lastMsg))
    => StageRank(getStage(state)) > StageRank(getStage(prev))

\* C25: refine is terminal and idempotent: once the stage resolver returns
\* refine, a turn that reaches the updater with no pending leaves the whole
\* Frame and the pending state unchanged, and the reply is the refine
\* question again.
C25_RefineTerminal ==
  (/\ path = "normal"
   /\ prev.pending.type = ""
   /\ getStage(prev) = "refine")
    => /\ state.frame = prev.frame
       /\ state.pending = prev.pending
       /\ Untranslated => reply = enforceSingleQuestion(baseQuestion(prev))

\* the 0-based indexes of the main ideas whose bucket holds fewer than 2 details
OpenBuckets(f) == {i \in 0..(Len(f.mainIdeas) - 1) : Len(bucket(f.details, i)) < 2}

LowestOf(S) == CHOOSE i \in S : \A j \in S : i <= j

\* keyTopic and isAbout set, at least two main ideas, no pending, and the
\* reply of the turn is the router's question in English
DetailsOrLater ==
  /\ state.frame.keyTopic # ""
  /\ state.frame.isAbout # ""
  /\ Len(state.frame.mainIdeas) >= 2
  /\ state.pending.type = ""
  /\ Untranslated

\* the question the router is to ask of a Frame past its main ideas
DetailsThenSoWhat ==
  /\ OpenBuckets(state.frame) # {}
       => reply = enforceSingleQuestion(
                    detailsQuestion(state, LowestOf(OpenBuckets(state.frame))))
  /\ (OpenBuckets(state.frame) = {} /\ state.frame.soWhat = "")
       => reply = enforceSingleQuestion(
                    Or(getPromptForStage(state, "soWhat"),
                       "So what? Why does \"" \o state.frame.keyTopic
                         \o "\" matter? (1-2 sentences)"))

CompleteFrame(f) ==
  /\ f.keyTopic # ""
  /\ f.isAbout # ""
  /\ f.soWhat # ""
  /\ Len(f.mainIdeas) >= 2
  /\ OpenBuckets(f) = {}

\* isFrameComplete depends on the Frame alone
PureCompleteness ==
  /\ isFrameComplete(state) <=> CompleteFrame(state.frame)
  /\ isFrameComplete(prev) <=> CompleteFrame(prev.frame)

ConfirmIsAboutReply ==
  /\ prev.pending.type = "confirmIsAbout"
  /\ lastMsg # ""
  /\ ~isStuckMessage(lastMsg)

\* the confirmation ends: pending is cleared, an affirmative reply leaves
\* isAbout, any other reply becomes isAbout, and the rest of the Frame stays
ConfirmationEnds ==
  /\ state.pending = null
  /\ isAffirmative(lastMsg) => state.frame.isAbout = prev.frame.isAbout
  /\ ~isAffirmative(lastMsg) => state.frame.isAbout = lastMsg
  /\ state.frame.keyTopic = prev.frame.keyTopic
  /\ state.frame.mainIdeas = prev.frame.mainIdeas
  /\ state.frame.details = prev.frame.details
  /\ state.frame.soWhat = prev.frame.soWhat

\* C28 (as stated): confirmIsAbout lasts exactly one turn: an affirmative
\* reply clears pending and leaves keyTopic and isAbout unchanged; any other
\* reply that is not a stuck-matching message overwrites isAbout with the
\* reply and clears pending; in both cases keyTopic, mainIdeas, details and
\* soWhat are unchanged.
C28_Original == ConfirmIsAboutReply => ConfirmationEnds

\* C28 (amended): the same for a reply that reaches the confirmIsAbout
\* handler.  A reply for which the detector reports another language is met
\* with the language question instead: pending becomes
\* confirmLanguageSwitch and the Frame stays as it was.
C28_Amended ==
  /\ ConfirmIsAboutReply => path \in {"normal", "languagePrompt"}
  /\ (ConfirmIsAboutReply /\ path = "normal") => ConfirmationEnds
  /\ (ConfirmIsAboutReply /\ path = "languagePrompt")
       => /\ state.pending.type = "confirmLanguageSwitch"
          /\ state.frame = prev.frame

\* a revision: the reply replaces the statement and the confirmation ends
C28_Witness ==
  /\ ConfirmIsAboutReply
  /\ path = "normal"
  /\ ~isAffirmative(lastMsg)
  /\ state.pending = null
  /\ state.frame.isAbout = lastMsg
  /\ prev.frame.isAbout # lastMsg

\* pending is offerThirdMainIdea after the turn and was not before it
OfferThirdOpens ==
  state.pending.type = "offerThirdMainIdea" /\ prev.pending.type # "offerThirdMainIdea"

\* the turn stores the second main idea
SecondMainIdeaStored == Len(prev.frame.mainIdeas) = 1 /\ Len(state.frame.mainIdeas) = 2

\* the outcome of a reply to the offer of a third main idea
OfferThirdAnswered ==
  /\ state.frame.mainIdeas = prev.frame.mainIdeas
  /\ state.pending.type = IF isAffirmative(lastMsg) THEN "collectThirdMainIdea"
                          ELSE "confirmMainIdeas"

\* the outcome of a reply to the request for the third main idea
ThirdCollected ==
  /\ state.pending.type = "confirmMainIdeas"
  /\ isNegative(lastMsg)
       => /\ state.frame.mainIdeas = prev.frame.mainIdeas
          /\ state.frame.details = prev.frame.details
  /\ ~isNegative(lastMsg)
       => /\ state.frame.mainIdeas = Append(prev.frame.mainIdeas, lastMsg)
          /\ state.frame.details = Append(prev.frame.details, << >>)

\* C29 (as stated): third-main-idea protocol: pending becomes
\* offerThirdMainIdea exactly in the turn that stores the second main idea;
\* from offerThirdMainIdea an affirmative reply leads to collectThirdMainIdea
\* and any other reply to confirmMainIdeas with mainIdeas unchanged; in
\* collectThirdMainIdea a non-negation reply appends exactly one main idea
\* with one empty detail bucket, a negation appends nothing, and in both
\* cases pending becomes confirmMainIdeas.
C29_Original ==
  /\ OfferThirdOpens <=> SecondMainIdeaStored
  /\ (prev.pending.type = "offerThirdMainIdea" /\ lastMsg # "") => OfferThirdAnswered
  /\ (prev.pending.type = "collectThirdMainIdea" /\ lastMsg # "") => ThirdCollected

\* the learner replies while the third-main-idea protocol is pending
ThirdMainIdeaReply ==
  /\ prev.pending.type \in {"offerThirdMainIdea", "collectThirdMainIdea"}
  /\ lastMsg # ""

\* C29 (amended): the same for a reply that reaches the updater.  A reply
\* for which the detector reports another language is met with the language
\* question, and a reply that the stuck heuristic matches with the stuck
\* confirmation: pending becomes confirmLanguageSwitch or stuckConfirm and
\* the Frame stays as it was.
C29_Amended ==
  /\ OfferThirdOpens <=> SecondMainIdeaStored
  /\ ThirdMainIdeaReply => path \in {"normal", "languagePrompt", "stuckEntry"}
  /\ (ThirdMainIdeaReply /\ path = "normal" /\ prev.pending.type = "offerThirdMainIdea")
       => OfferThirdAnswered
  /\ (ThirdMainIdeaReply /\ path = "normal" /\ prev.pending.type = "collectThirdMainIdea")
       => ThirdCollected
  /\ (ThirdMainIdeaReply /\ path = "languagePrompt")
       => /\ state.pending.type = "confirmLanguageSwitch"
          /\ state.frame = prev.frame
  /\ (ThirdMainIdeaReply /\ path = "stuckEntry")
       => /\ state.pending.type = "stuckConfirm"
          /\ state.frame = prev.frame

\* the third main idea is stored with its empty bucket
C29_Witness ==
  /\ prev.pending.type = "collectThirdMainIdea"
  /\ path = "normal"
  /\ Len(state.frame.mainIdeas) = 3
  /\ state.frame.mainIdeas[3] = lastMsg
  /\ state.frame.details = Append(prev.frame.details, << >>)
  /\ state.pending.type = "confirmMainIdeas"

\* C30: main-idea revision: from confirmMainIdeas, a reply that names an
\* index N in 1..len(mainIdeas) leads to collecting the replacement text
\* for main idea N (pending collectMainIdeaRevision with index N - 1), and
\* confirmMainIdeas clears only on an affirmative reply.
C30_MainIdeaRevision ==
  /\ (/\ prev.pending.type = "confirmMainIdeas"
      /\ path = "normal"
      /\ \E n \in 1..Len(prev.frame.mainIdeas) : lastMsg = ToString(n))
       => /\ state.pending.type = "collectMainIdeaRevision"
          /\ ToString(state.pending.index + 1) = lastMsg
  /\ (/\ prev.pending.type = "confirmMainIdeas"
      /\ path = "normal"
      /\ state.pending.type = "")
       => isAffirmative(lastMsg)

\* pending is offerThirdDetail for bucket i after the turn and was not before
OfferThirdDetailOpens(i) ==
  /\ state.pending.type = "offerThirdDetail"
  /\ state.pending.index = i
  /\ ~(prev.pending.type = "offerThirdDetail" /\ prev.pending.index = i)

\* no turn removes a main idea or a detail
GroupsOnlyGrow ==
  /\ Len(state.frame.mainIdeas) >= Len(prev.frame.mainIdeas)
  /\ \A i \in 0..2 : Len(bucket(state.frame.details, i)) >= Len(bucket(prev.frame.details, i))

\* C31: offer once per group: pending becomes offerThirdMainIdea at most
\* once in a session, and offerThirdDetail at most once for each main-idea
\* index, whatever mix of normal turns, stuck detours and stuckMini answers
\* occurs.  Stated turn by turn: the offer for a group opens only in the
\* turn that takes the group from fewer than 2 entries to exactly 2, and no
\* turn takes entries away, so that turn occurs once.
C31_OfferOnce ==
  /\ GroupsOnlyGrow
  /\ OfferThirdOpens
       => Len(prev.frame.mainIdeas) < 2 /\ Len(state.frame.mainIdeas) = 2
  /\ \A i \in 0..2 :
       OfferThirdDetailOpens(i)
         => /\ Len(bucket(prev.frame.details, i)) < 2
            /\ Len(bucket(state.frame.details, i)) = 2

\* the offer for the second bucket opens on a stuckMini answer
C31_Witness ==
  /\ OfferThirdDetailOpens(1)
  /\ prev.pending.type = "stuckMini"
  /\ path = "normal"
  /\ Len(bucket(state.frame.details, 1)) = 2

\* the number of positions at which the lists a and b differ
EntriesChanged(a, b) ==
  Cardinality({k \in 1..(IF Len(a) > Len(b) THEN Len(a) ELSE Len(b)) :
                 k > Len(a) \/ k > Len(b) \/ a[k] # b[k]})

Count(changed) == IF changed THEN 1 ELSE 0

\* the number of Frame slots (keyTopic, isAbout, soWhat, main-idea entries,
\* detail entries) in which f and g differ
SlotsChanged(f, g) ==
  Count(f.keyTopic # g.keyTopic) + Count(f.isAbout # g.isAbout)
    + Count(f.soWhat # g.soWhat)
    + EntriesChanged(f.mainIdeas, g.mainIdeas)
    + EntriesChanged(bucket(f.details, 0), bucket(g.details, 0))
    + EntriesChanged(bucket(f.details, 1), bucket(g.details, 1))
    + EntriesChanged(bucket(f.details, 2), bucket(g.details, 2))

\* C32: one forward step per turn: each turn changes at most one Frame slot
\* (keyTopic, isAbout, one main-idea entry, one detail entry, or soWhat);
\* the only turn that changes two is the combined extraction on a message
\* "X is about Y", which sets keyTopic and isAbout together; a plain
\* key-topic message is never also stored as isAbout.
C32_OneStep ==
  /\ SlotsChanged(prev.frame, state.frame) <= 2
  /\ SlotsChanged(prev.frame, state.frame) = 2
       => /\ parseKeyTopicIsAbout(lastMsg).ok
          /\ prev.frame.keyTopic = "" /\ prev.frame.isAbout = ""
          /\ state.frame.keyTopic # "" /\ state.frame.isAbout # ""
  /\ (state.frame.keyTopic # prev.frame.keyTopic /\ ~parseKeyTopicIsAbout(lastMsg).ok)
       => state.frame.isAbout = prev.frame.isAbout

\* a plain key-topic message fills keyTopic and nothing else
C32_Witness ==
  /\ path = "normal"
  /\ ~parseKeyTopicIsAbout(lastMsg).ok
  /\ prev.frame.keyTopic = ""
  /\ state.frame.keyTopic = lastMsg
  /\ state.frame.isAbout = ""
  /\ SlotsChanged(prev.frame, state.frame) = 1

\* C33: the stuck detector does not fire inside a protected flow: while
\* pending is a stuck-family state (stuckConfirm, stuckMenu, stuckReask,
\* stuckNudge, stuckMini, stuckSkip) or confirmLanguageSwitch, a
\* stuck-matching message never starts a new stuckConfirm and never replaces
\* the stored resumeQuestion.
C33_ProtectedFlow ==
  (/\ prev.pending.type \in StuckFamily \cup {"confirmLanguageSwitch"}
   /\ isStuckMessage(lastMsg))
    => /\ path # "stuckEntry"
       /\ (prev.pending.type \in StuckFamily /\ state.pending.type \in StuckFamily)
            => state.pending.resumeQuestion = prev.pending.resumeQuestion

\* C34: at most three items per group: in every state reachable from the
\* empty state there are at most 3 main ideas and every detail bucket holds
\* at most 3 details.
C34_AtMostThree ==
  /\ Len(state.frame.mainIdeas) <= 3
  /\ \A k \in 1..Len(state.frame.details) : Len(state.frame.details[k]) <= 3

\* three main ideas, and the third detail of a bucket has just been stored
C34_Witness ==
  /\ Len(state.frame.mainIdeas) = 3
  /\ prev.pending.type = "collectThirdDetail"
  /\ \E k \in 1..Len(state.frame.details) :
       Len(state.frame.details[k]) = 3 /\ Len(prev.frame.details[k]) = 2

\* C35: a negation is never stored as list content: in every state reachable
\* from the empty state no entry of mainIdeas and no entry of a detail
\* bucket is a negation word ("no", "nope", "nah", "n/a", "none"), whichever
\* path stored it.
C35_NoNegationStored ==
  /\ \A k \in 1..Len(state.frame.mainIdeas) : ~isNegative(state.frame.mainIdeas[k])
  /\ \A k \in 1..Len(state.frame.details) :
       \A j \in 1..Len(state.frame.details[k]) : ~isNegative(state.frame.details[k][j])

\* "no" in answer to the question for the second main idea stores nothing
C35_Witness ==
  /\ path = "normal"
  /\ prev.pending.type = ""
  /\ getStage(prev) = "mainIdeas"
  /\ Len(prev.frame.mainIdeas) = 1
  /\ lastMsg = "no"
  /\ state.frame.mainIdeas = prev.frame.mainIdeas

\* the sub-dialogues a stuck message may interrupt, with the payload they carry
SubDialogues ==
  {Pending(t) : t \in {"confirmIsAbout", "offerThirdMainIdea", "collectThirdMainIdea",
                       "confirmMainIdeas", "offerMoreSoWhat", "collectMoreSoWhat",
                       "confirmSoWhat", "offerExport", "chooseExportType"}}
    \cup {PendingAt(t, i) : t \in {"offerThirdDetail", "collectThirdDetail", "confirmDetails"},
                            i \in 0..2}

\* the turn leaves the stuck flow
DetourEnds ==
  /\ path = "normal"
  /\ prev.pending.type \in StuckFamily
  /\ state.pending.type \notin StuckFamily

\* the detour interrupted the sub-dialogue P: the question to resume is P's
Interrupted(P) ==
  prev.pending.resumeQuestion = enforceSingleQuestion(pendingQuestion([prev EXCEPT !.pending = P]))

\* C36: a stuck detour preserves the interrupted sub-dialogue: if the stuck
\* message arrived while a non-stuck pending state P was active, then when
\* the detour ends pending is P again with its payload.
C36_DetourPreserves ==
  \A P \in SubDialogues : (DetourEnds /\ Interrupted(P)) => state.pending = P

\* C37: stuckReask and stuckNudge are single-turn states: the first learner
\* message after either of them is processed as the answer to the resume
\* question, also when that is the purpose or the frame-type question, and
\* after that turn pending is no longer stuckReask or stuckNudge.
C37_SingleTurn ==
  (/\ prev.pending.type \in {"stuckReask", "stuckNudge"}
   /\ path = "normal")
    => /\ state.pending.type \notin {"stuckReask", "stuckNudge"}
       /\ (prev.frameMeta.purpose = "" /\ normalizePurpose(lastMsg) # "")
            => state.frameMeta.purpose = normalizePurpose(lastMsg)
       /\ (/\ prev.frameMeta.purpose # ""
           /\ prev.frameMeta.frameType = ""
           /\ normalizeFrameTypeSelection(lastMsg) # "")
            => state.frameMeta.frameType = normalizeFrameTypeSelection(lastMsg)

\* the Frame is complete, nothing is pending and the stage is refine
FrameDone ==
  /\ isFrameComplete(state)
  /\ state.pending = null
  /\ getStage(state) = "refine"

\* C38: progress under a cooperative learner: if from the empty state the
\* learner always gives an acceptable answer to the question asked, answers
\* "yes" to every confirmation and "no" to every optional offer, then after
\* finitely many turns the Frame is complete, pending is null and the stage
\* is refine.
C38_Progress == <>FrameDone

\* the last answer of the session ("no" to the export offer) ends it
C38_Witness ==
  /\ FrameDone
  /\ prev.pending.type = "offerExport"
  /\ lastMsg = "no"
  /\ state.flags.exportOffered

\* the learner's work: the slots of the Frame, the purpose and the frame type
Work(s) ==
  <<s.frame.keyTopic, s.frame.isAbout, s.frame.mainIdeas, s.frame.details,
    s.frame.soWhat, s.frameMeta.purpose, s.frameMeta.frameType>>

\* the turn was answered by the handler of stuckConfirm, stuckMenu or stuckSkip
StuckNavigation ==
  /\ path = "normal"
  /\ prev.pending.type \in {"stuckConfirm", "stuckMenu", "stuckSkip"}

\* the menu choice "skip for now"
SkipChosen ==
  /\ prev.pending.type = "stuckMenu"
  /\ normalizeStuckChoice(lastMsg) = "4"

\* C39: navigating the stuck menu does not touch the learner's work: the
\* handlers of stuckConfirm, stuckMenu and stuckSkip, and the turn that
\* enters stuckConfirm, leave keyTopic, isAbout, mainIdeas, details, soWhat,
\* purpose and frameType unchanged for every message (the one sent and any
\* other of Msgs sent next); only pending changes, and the skips list when
\* the choice is the skip.
C39_WorkUntouched ==
  (StuckNavigation \/ path = "stuckEntry")
    => /\ Work(state) = Work(prev)
       /\ [state EXCEPT !.pending = null, !.skips = << >>]
            = [prev EXCEPT !.pending = null, !.skips = << >>]
       /\ state.skips # prev.skips
            => /\ StuckNavigation /\ SkipChosen
               /\ state.skips = Append(prev.skips, Or(prev.pending.stage, getStage(prev)))
       /\ \A m \in Msgs :
            state.pending.type \in {"stuckConfirm", "stuckMenu", "stuckSkip"}
              => Work(updateStateFromStudent(state, m)) = Work(state)

\* the learner, stuck with a Key Topic stored, chooses to skip: the skips
\* list has grown by one stage
C39_Witness ==
  /\ StuckNavigation /\ SkipChosen
  /\ prev.frame.keyTopic # ""
  /\ Len(state.skips) = Len(prev.skips) + 1
  /\ state.pending.type = "stuckSkip"

\* C40: pending payloads are consistent with the Frame in every state
\* reachable from the empty state: pending in {offerThirdMainIdea,
\* collectThirdMainIdea, confirmMainIdeas} implies 2 <= len(mainIdeas) <= 3;
\* pending in {offerThirdDetail, collectThirdDetail, confirmDetails} implies
\* its index is an integer with 0 <= index < len(mainIdeas) and
\* details[index] has at least 2 entries; pending = confirmIsAbout implies
\* keyTopic and isAbout are non-empty; pending in {offerMoreSoWhat,
\* collectMoreSoWhat, confirmSoWhat} implies soWhat is non-empty.
C40_PendingConsistent ==
  /\ state.pending.type \in {"offerThirdMainIdea", "collectThirdMainIdea", "confirmMainIdeas"}
       => Len(state.frame.mainIdeas) \in 2..3
  /\ state.pending.type \in {"offerThirdDetail", "collectThirdDetail", "confirmDetails"}
       => /\ state.pending.index \in 0..(Len(state.frame.mainIdeas) - 1)
          /\ state.pending.index + 1 \in DOMAIN state.frame.details
          /\ Len(state.frame.details[state.pending.index + 1]) >= 2
  /\ state.pending.type = "confirmIsAbout"
       => /\ state.frame.keyTopic # ""
          /\ state.frame.isAbout # ""
  /\ state.pending.type \in {"offerMoreSoWhat", "collectMoreSoWhat", "confirmSoWhat"}
       => state.frame.soWhat # ""

\* the second detail of the second main idea has just been stored: the offer
\* of a third detail carries the index of that bucket
C40_Witness ==
  /\ state.pending = PendingAt("offerThirdDetail", 1)
  /\ Len(state.frame.mainIdeas) = 2
  /\ Len(state.frame.details[2]) = 2
  /\ Len(prev.frame.details[2]) = 1
  /\ state.frame.details[2][2] = lastMsg

====
